---- MODULE Spec2Model ----
(***************************************************************************)
(* beelog: log structures (ListHT, ArrayHT, AVLTreeHT, CircBuffHT,         *)
(* ConcTable), their reduce algorithms and the reduce schedules.           *)
(***************************************************************************)
EXTENDS Integers, Sequences, FiniteSets, TLC

\* ------------------------------------------------------------ bounds
\* number of Log calls of a workload
MaxCmds == 3

\* ------------------------------------------------------------ commands
Keys == {"a", "b"}

\* pb.Command{Id, Op, Key, Value}: the value written by the SET with id i is i
SetCmd(i, k) == [id |-> i, op |-> "SET", key |-> k, value |-> i]

\* the workload generator leaves Key and Value of a GET at their zero values
GetCmd(i) == [id |-> i, op |-> "GET", key |-> "", value |-> 0]

\* var phi pb.Command: the zero value of a command
ZeroCmd == [id |-> 0, op |-> "NONE", key |-> "", value |-> 0]

\* commands a producer may issue with index i
CmdsAt(i) == {SetCmd(i, k) : k \in Keys} \cup {GetCmd(i)}

\* an empty map (stateTable, minStateTable)
EmptyMap == [k \in {} |-> 0]

\* State{ind, cmd}
State(c) == [ind |-> c.id, cmd |-> c]

\* list.push on a per-key update list: appends and returns the new node's position
push(l, v) == [l EXCEPT !.st = Append(@, v)]

\* &list{}
EmptyList == [st |-> <<>>, visited |-> FALSE]

\* (*aux)[cmd.Key] = &list{} if absent, then push(st)
auxPush(aux, c) ==
  LET cur == IF c.key \in DOMAIN aux THEN aux[c.key] ELSE EmptyList
  IN  [k \in DOMAIN aux \cup {c.key} |-> IF k = c.key THEN push(cur, State(c)) ELSE aux[k]]

\* resetVisitedValues: every per-key list gets visited = false
resetVisitedValues(aux) == [k \in DOMAIN aux |-> [aux[k] EXCEPT !.visited = FALSE]]

\* followUpdates stopping at the state the entry points to
followUpdatesFirst(st, j, n, phi) ==
  IF j = 0 \/ j > Len(st) THEN phi ELSE IF st[j].ind <= n THEN st[j].cmd ELSE phi

\* for j := ent.ptr; j != nil && j.ind <= n; j = j.next { phi = j.cmd }
RECURSIVE followUpdates(_, _, _, _)
followUpdates(st, j, n, phi) ==
  IF j = 0 \/ j > Len(st) THEN phi
  ELSE IF st[j].ind <= n THEN followUpdates(st, j + 1, n, st[j].cmd)
  ELSE phi

\* ------------------------------------------------------------ ListHT
\* node positions are 1..Len(lt); 0 is nil
nextNode(lt, i) == IF i = 0 \/ i >= Len(lt) THEN 0 ELSE i + 1

RECURSIVE findMidLoop(_, _, _, _)
findMidLoop(lt, slow, fast, last) ==
  IF fast = last THEN slow
  ELSE LET f1 == nextNode(lt, fast)
       IN  IF f1 # last
           THEN findMidLoop(lt, nextNode(lt, slow), nextNode(lt, f1), last)
           ELSE findMidLoop(lt, slow, f1, last)

\* similar to Floyd's tortoise and hare algorithm
findMidInList(lt, start, last) ==
  IF start = 0 \/ last = 0 THEN 0 ELSE findMidLoop(lt, start, nextNode(lt, start), last)

RECURSIVE searchNodeLoop(_, _, _, _, _)
searchNodeLoop(lt, ind, start, last, mid) ==
  IF last = start THEN mid
  ELSE LET m == findMidInList(lt, start, last)
       IN  IF lt[m].ind = ind THEN m
           ELSE IF ind > lt[m].ind THEN searchNodeLoop(lt, ind, nextNode(lt, m), last, m)
           ELSE searchNodeLoop(lt, ind, start, m, m)

\* returns the node found by the binary search, "instead of nil, the nearest element"
searchEntryNodeByIndex(lt, ind) ==
  searchNodeLoop(lt, ind, IF Len(lt) = 0 THEN 0 ELSE 1, Len(lt), 0)

\* greedyVisit without the visited flag
greedyVisitUnmarked(ent, n, acc) ==
  [acc EXCEPT !.log = Append(@, followUpdates(acc.aux[ent.key].st, ent.ptr, n, ZeroCmd))]

\* one iteration of the greedy walk over entry ent: [log, aux] after it
greedyVisit(ent, n, acc) ==
  IF ~acc.aux[ent.key].visited
  THEN [acc EXCEPT !.log = Append(@, followUpdates(acc.aux[ent.key].st, ent.ptr, n, ZeroCmd)),
                   !.aux = [@ EXCEPT ![ent.key].visited = TRUE]]
  ELSE acc

RECURSIVE greedyListWalk(_, _, _, _)
greedyListWalk(lt, i, n, acc) ==
  IF i = 0 THEN acc
  ELSE IF lt[i].ind > n THEN acc
  ELSE greedyListWalk(lt, nextNode(lt, i), n, greedyVisit(lt[i], n, acc))

\* GreedyListHT: [log, aux] (the visited flags are written on the structure)
GreedyListHT(l, p, n) ==
  greedyListWalk(l.lt, searchEntryNodeByIndex(l.lt, p), n,
                 [log |-> <<>>, aux |-> resetVisitedValues(l.aux), panic |-> FALSE])

\* ------------------------------------------------------------ ArrayHT
RECURSIVE searchPosLoop(_, _, _, _, _)
searchPosLoop(arr, ind, start, last, mid) ==
  IF ~(last > start) THEN mid
  ELSE LET m == start + ((last - start) \div 2)
       IN  IF arr[m + 1].ind = ind THEN m
           ELSE IF ind > arr[m + 1].ind THEN searchPosLoop(arr, ind, m + 1, last, m)
           ELSE searchPosLoop(arr, ind, start, m - 1, m)

\* positions are 0-based as in the source; arr[i + 1] is (*ar.arr)[i]
searchEntryPosByIndex(arr, ind) == searchPosLoop(arr, ind, 0, Len(arr) - 1, 0)

RECURSIVE greedyArrayWalk(_, _, _, _)
greedyArrayWalk(arr, i, n, acc) ==
  IF ~(i < Len(arr)) THEN acc
  ELSE IF arr[i + 1].ind > n THEN acc
  ELSE greedyArrayWalk(arr, i + 1, n, greedyVisit(arr[i + 1], n, acc))

GreedyArrayHT(ar, p, n) ==
  greedyArrayWalk(ar.arr, searchEntryPosByIndex(ar.arr, p), n,
                  [log |-> <<>>, aux |-> resetVisitedValues(ar.aux), panic |-> FALSE])

\* ------------------------------------------------------------ AVLTreeHT
\* a nil *avlTreeEntry
NilT == [isNil |-> TRUE]

\* &avlTreeEntry{ind, key, ptr}, with the height insert gives it
avlTreeEntry(i, k, ptr) ==
  [isNil |-> FALSE, ind |-> i, key |-> k, ptr |-> ptr, left |-> NilT, right |-> NilT, height |-> 1]

getHeight(node) == IF node.isNil THEN 0 ELSE node.height

getBalanceFactor(node) == IF node.isNil THEN 0 ELSE getHeight(node.left) - getHeight(node.right)

max(a, b) == IF a > b THEN a ELSE b

rightRotate(root) ==
  LET son  == root.left
      gson == son.right
      r1   == [root EXCEPT !.left = gson]
      r2   == [r1 EXCEPT !.height = max(getHeight(r1.left), getHeight(r1.right)) + 1]
      s1   == [son EXCEPT !.right = r2]
  IN  [s1 EXCEPT !.height = max(getHeight(s1.left), getHeight(s1.right)) + 1]

leftRotate(root) ==
  LET son  == root.right
      gson == son.left
      r1   == [root EXCEPT !.right = gson]
      r2   == [r1 EXCEPT !.height = max(getHeight(r1.left), getHeight(r1.right)) + 1]
      s1   == [son EXCEPT !.left = r2]
  IN  [s1 EXCEPT !.height = max(getHeight(s1.left), getHeight(s1.right)) + 1]

\* the height update and the four rotation cases that follow the recursive call
avlRebalance(root0, node) ==
  LET root    == [root0 EXCEPT !.height = 1 + max(getHeight(root0.left), getHeight(root0.right))]
      balance == getBalanceFactor(root)
  IN  IF balance > 1 /\ node.ind < root.left.ind THEN rightRotate(root)
      ELSE IF balance < -1 /\ node.ind > root.right.ind THEN leftRotate(root)
      ELSE IF balance > 1 /\ node.ind > root.left.ind
           THEN rightRotate([root EXCEPT !.left = leftRotate(root.left)])
      ELSE IF balance < -1 /\ node.ind < root.right.ind
           THEN leftRotate([root EXCEPT !.right = rightRotate(root.right)])
      ELSE root

\* returns the new subtree root, or nil for an equal index
RECURSIVE recurInsert(_, _)
recurInsert(root, node) ==
  IF root.isNil THEN node
  ELSE IF node.ind < root.ind
       THEN avlRebalance([root EXCEPT !.left = recurInsert(root.left, node)], node)
  ELSE IF node.ind > root.ind
       THEN avlRebalance([root EXCEPT !.right = recurInsert(root.right, node)], node)
  ELSE NilT

\* AVLTreeHT.insert: [av, ok]
avlInsert(av, node) ==
  IF av.root.isNil
  THEN [av |-> [av EXCEPT !.root = node, !.len = @ + 1, !.ld.first = node.ind], ok |-> TRUE]
  ELSE LET rt == recurInsert(av.root, node)
       IN  IF ~rt.isNil
           THEN [av |-> [av EXCEPT !.len = @ + 1, !.root = rt], ok |-> TRUE]
           ELSE [av |-> av, ok |-> FALSE]

\* index in [p, n] interval and key not already satisfied on the log
avlVisit(u, p, n, acc) ==
  IF ~acc.aux[u.key].visited /\ u.ind >= p /\ u.ind <= n
  THEN [acc EXCEPT !.log = Append(@, followUpdates(acc.aux[u.key].st, u.ptr, n, ZeroCmd)),
                   !.aux = [@ EXCEPT ![u.key].visited = TRUE]]
  ELSE acc

RECURSIVE greedyRecur(_, _, _, _)
greedyRecur(k, p, n, acc) ==
  IF k.isNil THEN acc
  ELSE LET a1 == avlVisit(k, p, n, acc)
           a2 == IF k.ind > p THEN greedyRecur(k.left, p, n, a1) ELSE a1
       IN  IF k.ind < n THEN greedyRecur(k.right, p, n, a2) ELSE a2

GreedyAVLTreeHT(avl, p, n) ==
  greedyRecur(avl.root, p, n, [log |-> <<>>, aux |-> resetVisitedValues(avl.aux), panic |-> FALSE])

\* the children an iterative reducer appends to its queue after visiting u
avlChildren(u, p, n) ==
  (IF u.ind > p /\ ~u.left.isNil THEN <<u.left>> ELSE <<>>) \o
  (IF u.ind < n /\ ~u.right.isNil THEN <<u.right>> ELSE <<>>)

RECURSIVE iterBFSLoop(_, _, _, _)
iterBFSLoop(queue, p, n, acc) ==
  IF Len(queue) = 0 THEN acc
  ELSE LET u == queue[1]
       IN  IF u.isNil THEN [acc EXCEPT !.panic = TRUE]
           ELSE iterBFSLoop(Tail(queue) \o avlChildren(u, p, n), p, n, avlVisit(u, p, n, acc))

\* queue := []*avlTreeEntry{avl.root}: a nil root is dereferenced
IterBFSAVLTreeHT(avl, p, n) ==
  iterBFSLoop(<<avl.root>>, p, n, [log |-> <<>>, aux |-> resetVisitedValues(avl.aux), panic |-> FALSE])

RECURSIVE iterDFSLoop(_, _, _, _)
iterDFSLoop(queue, p, n, acc) ==
  IF Len(queue) = 0 THEN acc
  ELSE LET u == queue[Len(queue)]
       IN  IF u.isNil THEN [acc EXCEPT !.panic = TRUE]
           ELSE iterDFSLoop(SubSeq(queue, 1, Len(queue) - 1) \o avlChildren(u, p, n), p, n,
                            avlVisit(u, p, n, acc))

IterDFSAVLTreeHT(avl, p, n) ==
  iterDFSLoop(<<avl.root>>, p, n, [log |-> <<>>, aux |-> resetVisitedValues(avl.aux), panic |-> FALSE])

\* ------------------------------------------------------------ configuration
Immediately == "Immediately"
Delayed == "Delayed"
Interval == "Interval"

\* ReduceInterval
Ticks == {Immediately, Delayed, Interval}

\* Reducer
Reducers == {"GreedyLt", "GreedyArray", "GreedyAvl", "IterBFSAvl", "IterDFSAvl",
             "IterCircBuff", "IterConcTable"}

\* the structures implementing the Structure interface
Variants == {"ListHT", "ArrayHT", "AVLTreeHT", "CircBuffHT", "ConcTable"}

\* LogConfig; Period values a configuration is given here
Periods == {2}

LogConfig(inmem, keepAll, alg, tick, period, parallelIO) ==
  [Inmem |-> inmem, KeepAll |-> keepAll, Alg |-> alg, Tick |-> tick, Period |-> period,
   ParallelIO |-> parallelIO]

\* ------------------------------------------------------------ codec and logData
\* the bytes MarshalLogIntoWriter writes: header, length-prefixed commands, EOL mark
MarshalLogIntoWriter(log, p, n) ==
  [first |-> p, last |-> n, count |-> Len(log), frames |-> log, eol |-> TRUE]

\* reads ln commands (fewer at EOF), then the mandatory EOL flag
unmarshalBeelog(f, ln) ==
  LET k == IF ln < Len(f.frames) THEN ln ELSE Len(f.frames)
  IN  IF f.eol THEN [cmds |-> SubSeq(f.frames, 1, k), err |-> ""]
      ELSE [cmds |-> <<>>, err |-> "corrupted log"]

\* reads commands until EOF
unmarshalTradLog(f) == [cmds |-> f.frames, err |-> ""]

UnmarshalLogFromReader(f) ==
  IF f.count >= 0 THEN unmarshalBeelog(f, f.count) ELSE unmarshalTradLog(f)

\* a nil recentLog pointer, and a set one
NilLog == [set |-> FALSE, cmds |-> <<>>]
LogPtr(lg) == [set |-> TRUE, cmds |-> lg]

\* logData{config, logged, first, last, recentLog, count} (config is the variable cfg)
NewLogData == [logged |-> FALSE, first |-> 0, last |-> 0, recentLog |-> NilLog, count |-> 0]

\* the file a log state is written to: config.Fname or SecondFname, with the last
\* index in the name under KeepAll (idx = -1 otherwise)
LogFname(c, n, secDisk) ==
  [loc |-> IF secDisk THEN "secondary" ELSE "primary", idx |-> IF c.KeepAll THEN n ELSE -1]

\* updateLogState: [ld, disk, err]
updateLogState(c, ld, dsk, lg, p, n, secDisk) ==
  IF c.Inmem THEN [ld |-> [ld EXCEPT !.recentLog = LogPtr(lg)], disk |-> dsk, err |-> ""]
  ELSE IF secDisk /\ ~c.ParallelIO
       THEN [ld |-> ld, disk |-> dsk, err |-> "can not persist to secondary disk"]
  ELSE LET fn == LogFname(c, n, secDisk)
       IN  [ld |-> ld,
            disk |-> [f \in DOMAIN dsk \cup {fn} |->
                        IF f = fn THEN MarshalLogIntoWriter(lg, p, n) ELSE dsk[f]],
            err |-> ""]

\* retrieveLog: [cmds, err, panic]; a nil recentLog is dereferenced
retrieveLog(c, ld, dsk) ==
  IF c.Inmem
  THEN IF ld.recentLog.set THEN [cmds |-> ld.recentLog.cmds, err |-> "", panic |-> FALSE]
       ELSE [cmds |-> <<>>, err |-> "", panic |-> TRUE]
  ELSE LET fn == [loc |-> "primary", idx |-> -1]
       IN  IF fn \in DOMAIN dsk
           THEN LET r == UnmarshalLogFromReader(dsk[fn])
                IN  [cmds |-> r.cmds, err |-> r.err, panic |-> FALSE]
           ELSE [cmds |-> <<>>, err |-> "no such file", panic |-> FALSE]

\* firstReduceExists
firstReduceExists(c, ld, dsk) ==
  IF c.Inmem THEN ld.recentLog.set ELSE [loc |-> "primary", idx |-> -1] \in DOMAIN dsk

\* ------------------------------------------------------------ CircBuffHT
\* capacity of a circular buffer given to NewCircBuffHTWithConfig
Caps == {1, 2}

chanBuffSize == 128

\* Go's remainder: truncated division, the sign of the dividend
goRem(a, b) == IF a >= 0 THEN a % b ELSE 0 - ((0 - a) % b)

modInt(a, b) == LET r == goRem(a, b) IN IF r >= 0 THEN r ELSE r + b

\* buffEntry zero value
ZeroEntry == [ind |-> 0, key |-> ""]

NewCircBuffHT(cap) ==
  [buff |-> [i \in 0..(cap - 1) |-> ZeroEntry], aux |-> EmptyMap, cur |-> 0, cap |-> cap, len |-> 0,
   reduceReq |-> <<>>, ld |-> NewLogData]

\* createStateCopy
createStateCopy(cb) ==
  [cur |-> cb.cur, len |-> cb.len, cap |-> cb.cap, first |-> cb.ld.first, last |-> cb.ld.last,
   buf |-> cb.buff, tbl |-> cb.aux]

RECURSIVE iterCircLoop(_, _, _, _)
iterCircLoop(cp, i, visited, log) ==
  IF ~(i < cp.len) THEN log
  ELSE LET pos == modInt(cp.cur - 1 - i, cp.cap)
           ent == cp.buf[pos]
       IN  IF ent.key \notin visited
           THEN iterCircLoop(cp, i + 1, visited \cup {ent.key},
                             Append(log, IF ent.key \in DOMAIN cp.tbl THEN cp.tbl[ent.key].cmd
                                         ELSE ZeroCmd))
           ELSE iterCircLoop(cp, i + 1, visited, log)

\* a walk of the whole ring, whatever the length of the snapshot
iterWholeRing(cp) == iterCircLoop([cp EXCEPT !.len = cp.cap], 0, {}, <<>>)

IterCircBuffHT(cp) == iterCircLoop(cp, 0, {}, <<>>)

\* ------------------------------------------------------------ single-writer structures
NewListHT == [lt |-> <<>>, aux |-> EmptyMap, ld |-> NewLogData]

NewArrayHT == [arr |-> <<>>, aux |-> EmptyMap, ld |-> NewLogData]

NewAVLTreeHT == [root |-> NilT, aux |-> EmptyMap, len |-> 0, ld |-> NewLogData]

\* Structure.Len
StructLen(v, s) ==
  CASE v = "ListHT" -> Len(s.lt)
    [] v = "ArrayHT" -> Len(s.arr)
    [] v = "AVLTreeHT" -> s.len
    [] v = "CircBuffHT" -> s.len

\* the reducers ApplyReduceAlgo accepts for a structure
Supported(v) ==
  CASE v = "ListHT" -> {"GreedyLt"}
    [] v = "ArrayHT" -> {"GreedyArray"}
    [] v = "AVLTreeHT" -> {"GreedyAvl", "IterBFSAvl", "IterDFSAvl"}
    [] v = "CircBuffHT" -> {"IterCircBuff"}
    [] v = "ConcTable" -> {"IterConcTable"}

\* ApplyReduceAlgo on a single-writer structure: [log, aux, err, panic]
ApplyReduceAlgo(v, s, r, p, n) ==
  IF StructLen(v, s) < 1
  THEN [log |-> <<>>, aux |-> s.aux, err |-> "empty structure", panic |-> FALSE]
  ELSE IF r \notin Supported(v)
  THEN [log |-> <<>>, aux |-> s.aux, err |-> "unsupported reduce algorithm", panic |-> FALSE]
  ELSE LET returned(res) == [log |-> res.log, aux |-> res.aux, err |-> "", panic |-> res.panic]
       IN  returned(CASE r = "GreedyLt" -> GreedyListHT(s, p, n)
                      [] r = "GreedyArray" -> GreedyArrayHT(s, p, n)
                      [] r = "GreedyAvl" -> GreedyAVLTreeHT(s, p, n)
                      [] r = "IterBFSAvl" -> IterBFSAVLTreeHT(s, p, n)
                      [] r = "IterDFSAvl" -> IterDFSAVLTreeHT(s, p, n)
                      [] r = "IterCircBuff" ->
                           [log |-> IterCircBuffHT(createStateCopy(s)), aux |-> s.aux,
                            panic |-> FALSE])

\* ReduceLog of ListHT, ArrayHT and AVLTreeHT: [s, disk, err, reduces], reduces the
\* number of ReduceLog calls made
ReduceLog(v, c, s, dsk, p, n) ==
  LET updated(r, u) ==
        [s |-> [s EXCEPT !.aux = r.aux, !.ld = u.ld], disk |-> u.disk, err |-> u.err,
         reduces |-> 1]
      applied(r) ==
        IF r.err # "" THEN [s |-> s, disk |-> dsk, err |-> r.err, reduces |-> 1]
        ELSE updated(r, updateLogState(c, s.ld, dsk, r.log, p, n, FALSE))
  IN  applied(ApplyReduceAlgo(v, s, c.Alg, p, n))

\* mayTriggerReduce of ListHT, ArrayHT and AVLTreeHT
mayTriggerReduce(v, c, s, dsk) ==
  IF c.Tick # Interval THEN [s |-> s, disk |-> dsk, err |-> "", reduces |-> 0]
  ELSE IF s.ld.count + 1 >= c.Period
       THEN LET s1 == [s EXCEPT !.ld.count = 0]
            IN  ReduceLog(v, c, s1, dsk, s1.ld.first, s1.ld.last)
       ELSE [s |-> [s EXCEPT !.ld.count = @ + 1], disk |-> dsk, err |-> "", reduces |-> 0]

\* the tail of a Log of a SET: reduce at once under Immediately, else count it
logTail(v, c, s, dsk) ==
  IF c.Tick = Immediately THEN ReduceLog(v, c, s, dsk, s.ld.first, s.ld.last)
  ELSE mayTriggerReduce(v, c, s, dsk)

\* ListHT.Log
ListLog(c, l, dsk, cmd) ==
  IF cmd.op # "SET" THEN mayTriggerReduce("ListHT", c, [l EXCEPT !.ld.last = cmd.id], dsk)
  ELSE LET aux1  == auxPush(l.aux, cmd)
           entry == [ind |-> cmd.id, key |-> cmd.key, ptr |-> Len(aux1[cmd.key].st)]
           l1    == [l EXCEPT !.aux = aux1,
                              !.ld.first = IF Len(l.lt) = 0 THEN entry.ind ELSE @,
                              !.lt = Append(@, entry),
                              !.ld.last = cmd.id]
       IN  logTail("ListHT", c, l1, dsk)

\* ArrayHT.Log
ArrayLog(c, ar, dsk, cmd) ==
  IF cmd.op # "SET" THEN mayTriggerReduce("ArrayHT", c, [ar EXCEPT !.ld.last = cmd.id], dsk)
  ELSE LET aux1  == auxPush(ar.aux, cmd)
           entry == [ind |-> cmd.id, key |-> cmd.key, ptr |-> Len(aux1[cmd.key].st)]
           a1    == [ar EXCEPT !.aux = aux1,
                               !.ld.first = IF Len(ar.arr) = 0 THEN cmd.id ELSE @,
                               !.arr = Append(@, entry),
                               !.ld.last = cmd.id]
       IN  logTail("ArrayHT", c, a1, dsk)

\* AVLTreeHT.Log
AVLLog(c, t, dsk, cmd) ==
  IF cmd.op # "SET" THEN mayTriggerReduce("AVLTreeHT", c, [t EXCEPT !.ld.last = cmd.id], dsk)
  ELSE LET aux1 == auxPush(t.aux, cmd)
           ins  == avlInsert([t EXCEPT !.aux = aux1],
                             avlTreeEntry(cmd.id, cmd.key, Len(aux1[cmd.key].st)))
       IN  IF ~ins.ok
           THEN [s |-> ins.av, disk |-> dsk, err |-> "cannot insert equal keys on BSTs",
                 reduces |-> 0]
           ELSE logTail("AVLTreeHT", c, [ins.av EXCEPT !.ld.last = cmd.id], dsk)

\* mayExecuteLazyReduce of ListHT, ArrayHT and AVLTreeHT
mayExecuteLazyReduce(v, c, s, dsk, p, n) ==
  IF c.Tick = Delayed THEN ReduceLog(v, c, s, dsk, p, n)
  ELSE IF c.Tick = Interval /\ ~firstReduceExists(c, s.ld, dsk)
       THEN ReduceLog(v, c, s, dsk, s.ld.first, s.ld.last)
  ELSE [s |-> s, disk |-> dsk, err |-> "", reduces |-> 0]

\* a Recov that lacks the test of the interval
recovUnchecked(v, c, s, dsk, p, n) ==
  LET retrieved(m, g) ==
        [s |-> m.s, disk |-> m.disk, cmds |-> g.cmds, err |-> g.err, panic |-> g.panic,
         reduces |-> m.reduces]
      reduced(m) ==
        IF m.err # ""
        THEN [s |-> m.s, disk |-> m.disk, cmds |-> <<>>, err |-> m.err, panic |-> FALSE,
              reduces |-> m.reduces]
        ELSE retrieved(m, retrieveLog(c, m.s.ld, m.disk))
  IN  reduced(mayExecuteLazyReduce(v, c, s, dsk, p, n))

\* Recov of ListHT, ArrayHT and AVLTreeHT: [s, disk, cmds, err, panic, reduces]
Recov(v, c, s, dsk, p, n) ==
  IF n < p
  THEN [s |-> s, disk |-> dsk, cmds |-> <<>>, err |-> "invalid interval request", panic |-> FALSE,
        reduces |-> 0]
  ELSE LET retrieved(m, g) ==
             [s |-> m.s, disk |-> m.disk, cmds |-> g.cmds, err |-> g.err, panic |-> g.panic,
              reduces |-> m.reduces]
           reduced(m) ==
             IF m.err # ""
             THEN [s |-> m.s, disk |-> m.disk, cmds |-> <<>>, err |-> m.err, panic |-> FALSE,
                   reduces |-> m.reduces]
             ELSE retrieved(m, retrieveLog(c, m.s.ld, m.disk))
       IN  reduced(mayExecuteLazyReduce(v, c, s, dsk, p, n))

\* ------------------------------------------------------------ CircBuffHT operations
\* executeReduceAlgOnCopy, then updateLogState: CircBuffHT.ReduceLog, [s, disk, err]
CircReduceLog(c, cb, dsk, cp) ==
  IF c.Alg # "IterCircBuff"
  THEN [s |-> cb, disk |-> dsk, err |-> "unsupported reduce algorithm", reduces |-> 1]
  ELSE LET u == updateLogState(c, cb.ld, dsk, IterCircBuffHT(cp), cp.first, cp.last, FALSE)
       IN  [s |-> [cb EXCEPT !.ld = u.ld], disk |-> u.disk, err |-> u.err, reduces |-> 1]

\* resetBuffState
resetBuffState(cb) == [cb EXCEPT !.len = 0, !.ld.count = 0, !.ld.first = 0, !.ld.last = 0]

\* a mayTriggerReduce that lacks the capacity test
periodOnly(c, cb, cp) ==
  IF c.Tick # Interval THEN cb
  ELSE IF cb.ld.count + 1 >= c.Period
       THEN [cb EXCEPT !.ld.count = 0, !.reduceReq = Append(@, cp)]
       ELSE [cb EXCEPT !.ld.count = @ + 1]

\* CircBuffHT.mayTriggerReduce
CircMayTriggerReduce(c, cb, cp) ==
  IF cb.len = cb.cap THEN [resetBuffState(cb) EXCEPT !.reduceReq = Append(@, cp)]
  ELSE IF c.Tick # Interval THEN cb
  ELSE IF cb.ld.count + 1 >= c.Period
       THEN [cb EXCEPT !.ld.count = 0, !.reduceReq = Append(@, cp)]
       ELSE [cb EXCEPT !.ld.count = @ + 1]

\* an insertion that leaves the last index alone on a command that is no SET
insertWritesOnly(cb, cmd) ==
  IF cmd.op # "SET" THEN cb
  ELSE [cb EXCEPT !.aux = [k \in DOMAIN cb.aux \cup {cmd.key} |->
                             IF k = cmd.key THEN State(cmd) ELSE cb.aux[k]],
                  !.ld.first = IF cb.len = 0 THEN cmd.id ELSE @,
                  !.buff[cb.cur] = [ind |-> cmd.id, key |-> cmd.key],
                  !.cur = modInt(cb.cur + 1, cb.cap),
                  !.ld.last = cmd.id,
                  !.len = @ + 1]

\* the insertion part of CircBuffHT.Log, under cb.mu
CircInsert(cb, cmd) ==
  IF cmd.op # "SET" THEN [cb EXCEPT !.ld.last = cmd.id]
  ELSE [cb EXCEPT !.aux = [k \in DOMAIN cb.aux \cup {cmd.key} |->
                             IF k = cmd.key THEN State(cmd) ELSE cb.aux[k]],
                  !.ld.first = IF cb.len = 0 THEN cmd.id ELSE @,
                  !.buff[cb.cur] = [ind |-> cmd.id, key |-> cmd.key],
                  !.cur = modInt(cb.cur + 1, cb.cap),
                  !.ld.last = cmd.id,
                  !.len = @ + 1]

\* CircBuffHT.Log: [s, disk, err, reduces], reduces the number of ReduceLog calls made
\* and of copies sent on reduceReq
CircLog(c, cb, dsk, cmd) ==
  LET cb1 == CircInsert(cb, cmd)
      cp  == createStateCopy(cb1)
      cb2 == CircMayTriggerReduce(c, cb1, cp)
  IN  IF c.Tick = Delayed /\ cb1.len # cb1.cap
      THEN [s |-> cb1, disk |-> dsk, err |-> "", reduces |-> 0]
      ELSE IF cmd.op = "SET" /\ c.Tick = Immediately THEN CircReduceLog(c, cb1, dsk, cp)
      ELSE [s |-> cb2, disk |-> dsk, err |-> "",
            reduces |-> Len(cb2.reduceReq) - Len(cb1.reduceReq)]

\* CircBuffHT.mayExecuteLazyReduce
CircMayExecuteLazyReduce(c, cb, dsk, cp) ==
  IF c.Tick = Delayed THEN CircReduceLog(c, cb, dsk, cp)
  ELSE IF c.Tick = Interval /\ ~firstReduceExists(c, cb.ld, dsk) THEN CircReduceLog(c, cb, dsk, cp)
  ELSE [s |-> cb, disk |-> dsk, err |-> "", reduces |-> 0]

\* CircBuffHT.Recov: [s, disk, cmds, err, panic, reduces]
CircRecov(c, cb, dsk, p, n) ==
  IF n < p
  THEN [s |-> cb, disk |-> dsk, cmds |-> <<>>, err |-> "invalid interval request", panic |-> FALSE,
        reduces |-> 0]
  ELSE LET m == CircMayExecuteLazyReduce(c, cb, dsk, createStateCopy(cb))
       IN  IF m.err # ""
           THEN [s |-> m.s, disk |-> m.disk, cmds |-> <<>>, err |-> m.err, panic |-> FALSE,
                 reduces |-> m.reduces]
           ELSE LET g == retrieveLog(c, m.s.ld, m.disk)
                IN  [s |-> m.s, disk |-> m.disk, cmds |-> g.cmds, err |-> g.err, panic |-> g.panic,
                     reduces |-> m.reduces]

\* ------------------------------------------------------------ ConcTable
\* ConcTable.concLevel values given to NewConcTableWithConfig
ConcLevels == {1, 2}

resetOnImmediately == 4000

\* NewConcTableWithConfig: views, view mutexes, per-view logData, cursor, channel
NewConcTable(concLvl) ==
  [views |-> [i \in 0..(concLvl - 1) |-> EmptyMap],
   mu |-> [i \in 0..(concLvl - 1) |-> FALSE],
   logs |-> [i \in 0..(concLvl - 1) |-> NewLogData],
   concLevel |-> concLvl, loggerReq |-> <<>>, curMu |-> FALSE, current |-> 0, prevLog |-> 0,
   cancelled |-> FALSE]

\* a cursor that stays on its view
stayOnView(t) == t.current

\* a cursor that skips a view
advanceByTwo(t) == modInt(t.current + 2, t.concLevel)

\* advanceCurrentView: the new value of ct.current
advanceCurrentView(t) == modInt(t.current - t.concLevel + 1, t.concLevel)

\* willRequireReduceOnView: [reduce, advance, count], count the view's new counter
willRequireReduceOnView(c, t, wrt, id) ==
  IF wrt /\ c.Tick = Immediately
  THEN [reduce |-> TRUE, advance |-> FALSE, count |-> t.logs[id].count]
  ELSE IF c.Tick # Interval
  THEN [reduce |-> FALSE, advance |-> FALSE, count |-> t.logs[id].count]
  ELSE IF t.logs[id].count + 1 >= c.Period
  THEN [reduce |-> TRUE, advance |-> TRUE, count |-> 0]
  ELSE [reduce |-> FALSE, advance |-> FALSE, count |-> t.logs[id].count + 1]

\* a Lock that returns at once
NeverBlocks(m) == TRUE

\* sync.Mutex.Lock returns only once the mutex is unlocked
CanLock(m) == m = FALSE

\* a resetViewState that empties the table and leaves the indexes as they are
resetTableOnly(t, id) == [t EXCEPT !.views[id] = EmptyMap, !.logs[id].logged = FALSE]

\* resetViewState
resetViewState(t, id) ==
  [t EXCEPT !.views[id] = EmptyMap,
            !.logs[id].first = 0, !.logs[id].last = 0, !.logs[id].logged = FALSE]

\* the orders in which ranging over a map may yield its keys
RECURSIVE KeyOrders(_)
KeyOrders(ks) ==
  IF ks = {} THEN {<<>>}
  ELSE UNION {{<<k>> \o o : o \in KeyOrders(ks \ {k})} : k \in ks}

\* IterConcTableOnView, ranging over the table in order ord
IterConcTableOnView(tbl, ord) == [i \in 1..Len(ord) |-> tbl[ord[i]].cmd]

\* executeReduceAlgOnView: [cmds, err]
executeReduceAlgOnView(c, t, id, ord) ==
  IF c.Alg = "IterConcTable" THEN [cmds |-> IterConcTableOnView(t.views[id], ord), err |-> ""]
  ELSE [cmds |-> <<>>, err |-> "unsupported reduce algorithm"]

\* persistTable: [ld, disk, err, cmds]
persistTable(c, t, dsk, id, secDisk, ord) ==
  LET r == executeReduceAlgOnView(c, t, id, ord)
  IN  IF r.err # "" THEN [ld |-> t.logs[id], disk |-> dsk, err |-> r.err, cmds |-> <<>>]
      ELSE LET u == updateLogState(c, t.logs[id], dsk, r.cmds, t.logs[id].first,
                                   t.logs[id].last, secDisk)
           IN  [ld |-> u.ld, disk |-> u.disk, err |-> u.err, cmds |-> r.cmds]

\* strconv.FormatUint(n, 10), as digits
RECURSIVE FormatUint(_)
FormatUint(n) == IF n < 10 THEN <<n>> ELSE Append(FormatUint(n \div 10), n % 10)

\* the part of a file's name that differs within a folder: the index KeepAll writes in it
FileName(f) == IF f.idx < 0 THEN <<>> ELSE FormatUint(f.idx)

\* strings.Compare(a, b) == -1
CompareLess(a, b) ==
  \E i \in 1..Len(b) :
    /\ \A j \in 1..(i - 1) : j <= Len(a) /\ a[j] = b[j]
    /\ (i > Len(a) \/ a[i] < b[i])

\* an order on the names alone, whatever their lengths
alphaLess(a, b) == CompareLess(a, b)

\* byLenAlpha.Less
byLenAlphaLess(a, b) == Len(a) < Len(b) \/ (Len(a) = Len(b) /\ CompareLess(a, b))

\* sort.Sort(byLenAlpha(fs))
RECURSIVE sortByLenAlpha(_)
sortByLenAlpha(fs) ==
  IF fs = {} THEN <<>>
  ELSE LET m == CHOOSE f \in fs :
                  \A g \in fs \ {f} : byLenAlphaLess(FileName(f), FileName(g))
       IN  <<m>> \o sortByLenAlpha(fs \ {m})

\* the content of the first file alone
headFrames(dsk, fs) == IF fs = <<>> THEN <<>> ELSE dsk[Head(fs)].frames

RECURSIVE concatFrames(_, _)
concatFrames(dsk, fs) ==
  IF fs = <<>> THEN <<>> ELSE dsk[Head(fs)].frames \o concatFrames(dsk, Tail(fs))

\* RecovEntireLog: the *.log files of the log folder, sorted, one after the other
RecovEntireLog(dsk) ==
  LET fs == sortByLenAlpha({f \in DOMAIN dsk : f.loc = "primary"})
  IN  [files |-> fs, cmds |-> concatFrames(dsk, fs), count |-> Len(fs)]

\* ------------------------------------------------------------ state
VARIABLES
  variant,  \* which Structure implementation the program built
  cfg,      \* its LogConfig
  hist,     \* every command passed to Log so far, in call order
  out,      \* what the last API call returned
  st,       \* the ListHT, ArrayHT, AVLTreeHT or CircBuffHT
  disk,     \* the files written, by name
  ct,       \* the ConcTable
  prod,     \* the goroutine calling ConcTable.Log
  pst,      \* the handleReduce goroutines
  rd,       \* the goroutines calling Recov concurrently
  gh        \* history of the ConcTable run, read by the properties only

vars == <<variant, cfg, hist, out, st, disk, ct, prod, pst, rd, gh>>

seqVars == <<variant, cfg, st>>
ctVars == <<ct, prod, pst, rd, gh>>

\* the interval bounds handed to the reducers and to Recov
IdRange == 0..(MaxCmds + 1)

\* what a call returned, and the reduces it ran or sent to a reduce routine
NoOut == [kind |-> "none", alg |-> "", p |-> 0, n |-> 0, log |-> <<>>, err |-> "", panic |-> FALSE,
          reduces |-> 0]

NewStructure(v, cap) ==
  CASE v = "ListHT" -> NewListHT
    [] v = "ArrayHT" -> NewArrayHT
    [] v = "AVLTreeHT" -> NewAVLTreeHT
    [] v = "CircBuffHT" -> NewCircBuffHT(cap)
    [] OTHER -> NewListHT

\* the index of the first command logged
FirstId == 1

NextId == FirstId + Len(hist)

\* the goroutines before any call
IdleProd == [pc |-> "idle", cur |-> 0, cmd |-> ZeroCmd, willReduce |-> FALSE]
\* handleReduce(ctx, secDisk) with its local count; event is the logEvent in hand,
\* wrote and epoch what it last persisted and what had been appended to that view
NoEvent == [table |-> 0, measure |-> -1, upto |-> 0, late |-> FALSE]
NoWrote == [cmds |-> <<>>, first |-> 0, last |-> 0]
IdlePst(sec) == [pc |-> "idle", secDisk |-> sec, count |-> 0, event |-> NoEvent,
                 wrote |-> NoWrote, epoch |-> <<>>]
\* a Recov(p, n) call: the view it read from the cursor, whether it reduced it, and
\* what that reduce wrote; alone: no Log call was running when it was called
IdleRd == [pc |-> "idle", cur |-> 0, exec |-> FALSE, p |-> 0, n |-> 0, wrote |-> <<>>,
           alone |-> FALSE]
\* applied[v]: the commands written to view v since its last reset; nRecov: Recov calls
\* made; handed: the view the latest complete Log call handed off, -1 if it handed none;
\* moved: a Recov call advanced the cursor since the latest Log call read it; quiet: none
\* had when that Log call read it; budget: the Recov calls the run makes in all;
\* lazies: the Recov calls that have run a reduce and got no error from it;
\* prior: the Log calls that had returned before the run that is followed starts;
\* issued: the reduces that the Log calls on a CircBuffHT have run or enqueued;
\* reds: the [first, last] of the last two reductions that Log calls have issued
NoGh(lvl) == [applied |-> [i \in 0..(lvl - 1) |-> <<>>], nRecov |-> 0, moved |-> FALSE,
              handed |-> -1, quiet |-> TRUE, budget |-> 0, lazies |-> 0, prior |-> 0,
              issued |-> 0, reds |-> <<>>]

\* the last two reductions once one with extents [f, l] is issued, or the same two
\* when the Log call issues none
Issue(reds, reduces, f, l) ==
  IF reduces = 0 THEN reds
  ELSE IF Len(reds) < 2 THEN Append(reds, [first |-> f, last |-> l])
  ELSE <<reds[2], [first |-> f, last |-> l]>>

\* Recov calls made on a ListHT, ArrayHT, AVLTreeHT or CircBuffHT
ApiRecov == 2

\* ------------------------------------------------------------ single-writer runs
InitStruct ==
  /\ variant \in {"ListHT", "ArrayHT", "AVLTreeHT", "CircBuffHT"}
  /\ \E alg \in Supported(variant), tick \in Ticks, period \in Periods :
       cfg = LogConfig(TRUE, FALSE, alg, tick, period, FALSE)
  /\ \E cap \in Caps : st = NewStructure(variant, cap)
  /\ hist = <<>>
  /\ out = NoOut
  /\ disk = EmptyMap
  /\ ct = NewConcTable(1)
  /\ prod = IdleProd
  /\ pst = <<>>
  /\ rd = <<>>
  /\ gh = [NoGh(1) EXCEPT !.budget = ApiRecov]

\* l.mu.Lock() of ListHT.Log returns once no Recov call holds the read lock
NoReader == \A r \in DOMAIN rd : rd[r].pc = "idle"

\* a call of Log on the ListHT
LogList ==
  /\ variant = "ListHT"
  /\ Len(hist) < MaxCmds
  /\ NoReader
  /\ \E cmd \in CmdsAt(NextId) :
       \E r \in {ListLog(cfg, st, disk, cmd)} :
           /\ st' = r.s
           /\ disk' = r.disk
           /\ hist' = Append(hist, cmd)
           /\ out' = [NoOut EXCEPT !.kind = "log", !.err = r.err, !.reduces = r.reduces]
           /\ gh' = [gh EXCEPT !.reds = Issue(@, r.reduces, r.s.ld.first, r.s.ld.last)]
  /\ UNCHANGED <<variant, cfg, ct, prod, pst, rd>>

\* a call of Log on the ArrayHT
LogArray ==
  /\ variant = "ArrayHT"
  /\ Len(hist) < MaxCmds
  /\ \E cmd \in CmdsAt(NextId) :
       \E r \in {ArrayLog(cfg, st, disk, cmd)} :
           /\ st' = r.s
           /\ disk' = r.disk
           /\ hist' = Append(hist, cmd)
           /\ out' = [NoOut EXCEPT !.kind = "log", !.err = r.err, !.reduces = r.reduces]
           /\ gh' = [gh EXCEPT !.reds = Issue(@, r.reduces, r.s.ld.first, r.s.ld.last)]
  /\ UNCHANGED <<variant, cfg, ct, prod, pst, rd>>

\* a call of Log on the AVLTreeHT
LogAVL ==
  /\ variant = "AVLTreeHT"
  /\ Len(hist) < MaxCmds
  /\ \E cmd \in CmdsAt(NextId) :
       \E r \in {AVLLog(cfg, st, disk, cmd)} :
           /\ st' = r.s
           /\ disk' = r.disk
           /\ hist' = Append(hist, cmd)
           /\ out' = [NoOut EXCEPT !.kind = "log", !.err = r.err, !.reduces = r.reduces]
           /\ gh' = [gh EXCEPT !.reds = Issue(@, r.reduces, r.s.ld.first, r.s.ld.last)]
  /\ UNCHANGED <<variant, cfg, ct, prod, pst, rd>>

\* a call of Log on the CircBuffHT
LogCirc ==
  /\ variant = "CircBuffHT"
  /\ Len(hist) < MaxCmds
  /\ Len(st.reduceReq) < chanBuffSize
  /\ \E cmd \in CmdsAt(NextId) :
       \E r \in {CircLog(cfg, st, disk, cmd)} :
           /\ st' = r.s
           /\ disk' = r.disk
           /\ hist' = Append(hist, cmd)
           /\ out' = [NoOut EXCEPT !.kind = "log", !.err = r.err, !.reduces = r.reduces]
           /\ gh' = [gh EXCEPT !.issued = @ + r.reduces,
                               !.reds = Issue(@, r.reduces, CircInsert(st, cmd).ld.first,
                                              CircInsert(st, cmd).ld.last)]
  /\ UNCHANGED <<variant, cfg, ct, prod, pst, rd>>

\* CircBuffHT.handleReduce receiving one copy from reduceReq
CircHandleReduce ==
  /\ variant = "CircBuffHT"
  /\ st.reduceReq # <<>>
  /\ LET r == CircReduceLog(cfg, [st EXCEPT !.reduceReq = Tail(@)], disk, Head(st.reduceReq))
     IN  /\ st' = r.s
         /\ disk' = r.disk
  /\ UNCHANGED <<variant, cfg, hist, out, ctVars>>

\* a call of ApplyReduceAlgo(st, cfg.Alg, p, n)
Reduce ==
  /\ variant \in {"ListHT", "ArrayHT", "AVLTreeHT", "CircBuffHT"}
  /\ \E r \in {cfg.Alg}, p \in IdRange, n \in IdRange :
       \E res \in {ApplyReduceAlgo(variant, st, r, p, n)} :
           /\ st' = [st EXCEPT !.aux = res.aux]
           /\ out' = [kind |-> "reduce", alg |-> r, p |-> p, n |-> n, log |-> res.log,
                      err |-> res.err, panic |-> res.panic, reduces |-> 0]
  /\ UNCHANGED <<variant, cfg, hist, disk, ctVars>>

\* a call of Recov(p, n) on the ListHT, ArrayHT or AVLTreeHT
RecovSeq ==
  /\ variant \in {"ListHT", "ArrayHT", "AVLTreeHT"}
  /\ gh.nRecov < gh.budget
  /\ \E p \in IdRange, n \in IdRange :
       \E r \in {Recov(variant, cfg, st, disk, p, n)} :
           /\ st' = r.s
           /\ disk' = r.disk
           /\ out' = [kind |-> "recov", alg |-> cfg.Alg, p |-> p, n |-> n, log |-> r.cmds,
                      err |-> r.err, panic |-> r.panic, reduces |-> r.reduces]
           /\ gh' = [gh EXCEPT !.nRecov = @ + 1,
                               !.lazies = IF r.err = "" THEN @ + r.reduces ELSE @]
  /\ UNCHANGED <<variant, cfg, hist, ct, prod, pst, rd>>

\* a call of Recov(p, n) on the CircBuffHT
RecovCirc ==
  /\ variant = "CircBuffHT"
  /\ gh.nRecov < gh.budget
  /\ \E p \in IdRange, n \in IdRange :
       \E r \in {CircRecov(cfg, st, disk, p, n)} :
           /\ st' = r.s
           /\ disk' = r.disk
           /\ out' = [kind |-> "recov", alg |-> cfg.Alg, p |-> p, n |-> n, log |-> r.cmds,
                      err |-> r.err, panic |-> r.panic, reduces |-> r.reduces]
           /\ gh' = [gh EXCEPT !.nRecov = @ + 1,
                               !.lazies = IF r.err = "" THEN @ + r.reduces ELSE @]
  /\ UNCHANGED <<variant, cfg, hist, ct, prod, pst, rd>>

\* ------------------------------------------------------------ what a log amounts to
\* the key->value map left by executing the SETs of cmds, in order, on an empty store
Exec(cmds) ==
  LET sets == {i \in DOMAIN cmds : cmds[i].op = "SET"}
      last(k) == CHOOSE i \in sets : cmds[i].key = k /\ \A j \in sets : cmds[j].key = k => j <= i
  IN  [k \in {cmds[i].key : i \in sets} |-> cmds[last(k)].value]

\* the logged commands with id in [p, n]
InInterval(cmds, p, n) == SelectSeq(cmds, LAMBDA c : c.id >= p /\ c.id <= n)

\* the net effect of the logged SETs with id in [p, n]
NetEffect(p, n) == Exec(InInterval(hist, p, n))

\* the last call was ApplyReduceAlgo with reducer r on a valid interval, and it returned a log
Reduced(r) == out.kind = "reduce" /\ out.alg = r /\ out.err = "" /\ out.p <= out.n

\* C3: GreedyLt on a non-empty ListHT returns, for every p <= n, a log whose execution
\* on an empty store equals executing the logged SETs with id in [p, n]
C3_GreedyLtNetEffect ==
  (variant = "ListHT" /\ Reduced("GreedyLt")) => Exec(out.log) = NetEffect(out.p, out.n)

\* C4: GreedyArray on a non-empty ArrayHT returns, for every p <= n, a log whose
\* execution on an empty store equals executing the logged SETs with id in [p, n]
C4_GreedyArrayNetEffect ==
  (variant = "ArrayHT" /\ Reduced("GreedyArray")) => Exec(out.log) = NetEffect(out.p, out.n)

\* C5: on an AVLTreeHT, for every p <= n, GreedyAvl, IterBFSAvl and IterDFSAvl return
\* logs of the same length and the same key->value map, the net effect of the logged
\* SETs with id in [p, n]
C5_AvlReducersAgree ==
  (variant = "AVLTreeHT" /\ out.kind = "reduce" /\ out.err = "" /\ out.p <= out.n) =>
    LET g == ApplyReduceAlgo(variant, st, "GreedyAvl", out.p, out.n)
        b == ApplyReduceAlgo(variant, st, "IterBFSAvl", out.p, out.n)
        d == ApplyReduceAlgo(variant, st, "IterDFSAvl", out.p, out.n)
        mine == ApplyReduceAlgo(variant, st, out.alg, out.p, out.n)
    IN  /\ mine.log = out.log
        /\ ~g.panic /\ ~b.panic /\ ~d.panic
        /\ Len(g.log) = Len(b.log) /\ Len(b.log) = Len(d.log)
        /\ Exec(g.log) = Exec(b.log) /\ Exec(b.log) = Exec(d.log)
        /\ Exec(g.log) = NetEffect(out.p, out.n)

\* a reduce of a rotated three-node tree with an overwritten key, over an interval
\* that leaves the first SET out
C5_Witness ==
  /\ variant = "AVLTreeHT" /\ Reduced(out.alg)
  /\ st.len = 3 /\ ~st.root.left.isNil /\ ~st.root.right.isNil
  /\ hist[1].key = hist[3].key
  /\ out.p = 2 /\ out.n = 3 /\ Len(out.log) = 2

\* C6: a log returned by a reducer holds at most one command per key, and each of
\* its commands is a SET that was logged
C6_OnePerKeyLoggedSets ==
  (out.kind = "reduce" /\ out.err = "") =>
    /\ \A i, j \in DOMAIN out.log : out.log[i].key = out.log[j].key => i = j
    /\ \A i \in DOMAIN out.log :
         out.log[i].op = "SET" /\ \E k \in DOMAIN hist : hist[k] = out.log[i]

\* a reducer returned both keys although one of them was set twice, with a GET logged
C6_Witness ==
  /\ out.kind = "reduce" /\ out.err = "" /\ Len(out.log) = 2
  /\ Len(hist) = MaxCmds
  /\ \E i, j \in DOMAIN hist : i # j /\ hist[i].op = "SET" /\ hist[j].op = "SET"
                                /\ hist[i].key = hist[j].key


\* ------------------------------------------------------------ ConcTable runs
\* commands logged to a ConcTable, and the id of the first
CtCmds == 3
CtFirstId == 8
\* goroutines calling Recov, and the Recov calls they make in all
NumReaders == 1
MaxRecov == 1

\* storage configurations: inmem, or files kept under KeepAll with one or two disks
CtPeriods == {1, 2}
\* the intervals asked of Recov: every id logged, and the second id alone
CtIntervals == {<<CtFirstId, CtFirstId + CtCmds - 1>>, <<CtFirstId + 1, CtFirstId + 1>>}
\* Period is read under Interval only
CtSchedules == {<<Immediately, 1>>, <<Delayed, 1>>} \cup {<<Interval, p>> : p \in CtPeriods}
CtConfigs ==
  {LogConfig(TRUE, FALSE, "IterConcTable", s[1], s[2], FALSE) : s \in CtSchedules}
  \cup {LogConfig(FALSE, TRUE, "IterConcTable", s[1], s[2], par) :
          s \in CtSchedules, par \in BOOLEAN}

\* a ConcTable built with one of the configurations cfgs, on which calls Recov calls
\* are made
InitTable(cfgs, calls) ==
  /\ variant = "ConcTable"
  /\ cfg \in cfgs
  /\ \E lvl \in ConcLevels :
       ct = NewConcTable(lvl) /\ gh = [NoGh(lvl) EXCEPT !.budget = calls]
  /\ pst = [h \in 1..(IF cfg.ParallelIO THEN 2 ELSE 1) |-> IdlePst(h = 2)]
  /\ rd = [r \in 1..NumReaders |-> IdleRd]
  /\ prod = IdleProd
  /\ st = NewListHT
  /\ hist = <<>>
  /\ out = NoOut
  /\ disk = EmptyMap

InitCT == InitTable(CtConfigs, MaxRecov)

\* ConcTable.Log up to the wait for the view mutex: curMu taken, the cursor read,
\* willRequireReduceOnView, advanceCurrentView
LogEnter ==
  /\ variant = "ConcTable"
  /\ prod.pc = "idle"
  /\ Len(hist) - gh.prior < CtCmds
  /\ CanLock(ct.curMu)
  /\ \E cmd \in CmdsAt(CtFirstId + Len(hist)) :
       LET cur == ct.current
           w   == willRequireReduceOnView(cfg, ct, cmd.op = "SET", cur)
       IN  /\ ct' = [ct EXCEPT !.curMu = TRUE,
                               !.logs[cur].count = w.count,
                               !.current = IF w.advance THEN advanceCurrentView(ct) ELSE @]
           /\ prod' = [pc |-> "lock", cur |-> cur, cmd |-> cmd, willReduce |-> w.reduce]
           /\ hist' = Append(hist, cmd)
  /\ out' = NoOut
  /\ gh' = [gh EXCEPT !.quiet = ~gh.moved, !.moved = FALSE]
  /\ UNCHANGED <<seqVars, disk, pst, rd>>

\* ct.mu[cur].Lock(); ct.curMu.Unlock()
LogLockView ==
  /\ prod.pc = "lock"
  /\ CanLock(ct.mu[prod.cur])
  /\ ct' = [ct EXCEPT !.mu[prod.cur] = TRUE, !.curMu = FALSE]
  /\ prod' = [prod EXCEPT !.pc = "first"]
  /\ UNCHANGED <<seqVars, hist, out, disk, pst, rd, gh>>

\* the first index of the view and the key's state
LogWriteView ==
  /\ prod.pc = "first"
  /\ LET cur == prod.cur
         cmd == prod.cmd
         tbl == ct.views[cur]
     IN  /\ ct' = [ct EXCEPT
                     !.logs[cur].first = IF ct.logs[cur].logged THEN @ ELSE cmd.id,
                     !.logs[cur].logged = TRUE,
                     !.views[cur] = IF cmd.op # "SET" THEN @
                                    ELSE [k \in DOMAIN tbl \cup {cmd.key} |->
                                            IF k = cmd.key THEN State(cmd) ELSE tbl[k]]]
         /\ gh' = [gh EXCEPT !.applied[cur] = Append(@, cmd)]
  /\ prod' = [prod EXCEPT !.pc = "last"]
  /\ UNCHANGED <<seqVars, hist, out, disk, pst, rd>>

\* a Log call that unlocks the view after it has handed it off
finishUnlocks ==
  /\ prod.pc = "last"
  /\ prod.willReduce => Len(ct.loggerReq) < chanBuffSize
  /\ ct' = [ct EXCEPT !.logs[prod.cur].last = prod.cmd.id,
                      !.mu[prod.cur] = FALSE,
                      !.loggerReq = IF prod.willReduce
                                    THEN Append(@, [table |-> prod.cur, measure |-> -1,
                                                    upto |-> prod.cmd.id,
                                                    late |-> ct.cancelled])
                                    ELSE @]
  /\ gh' = [gh EXCEPT !.handed = IF prod.willReduce THEN prod.cur ELSE -1,
                      !.reds = Issue(@, IF prod.willReduce THEN 1 ELSE 0,
                                     ct.logs[prod.cur].first, prod.cmd.id)]
  /\ prod' = IdleProd
  /\ out' = [NoOut EXCEPT !.kind = "log", !.reduces = IF prod.willReduce THEN 1 ELSE 0]
  /\ UNCHANGED <<seqVars, hist, disk, pst, rd>>

\* the last index, then the hand-off on loggerReq or the unlock
LogFinish ==
  /\ prod.pc = "last"
  /\ prod.willReduce => Len(ct.loggerReq) < chanBuffSize
  /\ LET cur == prod.cur
     IN  IF prod.willReduce
         THEN /\ ct' = [ct EXCEPT !.logs[cur].last = prod.cmd.id,
                                  !.loggerReq = Append(@, [table |-> cur, measure |-> -1,
                                                           upto |-> prod.cmd.id,
                                                           late |-> ct.cancelled])]
              /\ gh' = [gh EXCEPT !.handed = cur,
                                  !.reds = Issue(@, 1, ct.logs[cur].first, prod.cmd.id)]
         ELSE /\ ct' = [ct EXCEPT !.logs[cur].last = prod.cmd.id, !.mu[cur] = FALSE]
              /\ gh' = [gh EXCEPT !.handed = -1]
  /\ prod' = IdleProd
  /\ out' = [NoOut EXCEPT !.kind = "log", !.reduces = IF prod.willReduce THEN 1 ELSE 0]
  /\ UNCHANGED <<seqVars, hist, disk, pst, rd>>

\* handleReduce: case event := <-ct.loggerReq
PersistReceive(h) ==
  /\ pst[h].pc = "idle"
  /\ ct.loggerReq # <<>>
  /\ pst' = [pst EXCEPT ![h].pc = "persist", ![h].event = Head(ct.loggerReq)]
  /\ ct' = [ct EXCEPT !.loggerReq = Tail(@)]
  /\ UNCHANGED <<seqVars, hist, out, disk, prod, rd, gh>>

\* reduceLog: persistTable(cur, secDisk)
PersistTable(h) ==
  /\ pst[h].pc = "persist"
  /\ LET id == pst[h].event.table
     IN  \E ord \in KeyOrders(DOMAIN ct.views[id]) :
           LET r == persistTable(cfg, ct, disk, id, pst[h].secDisk, ord)
           IN  IF r.err # ""
               THEN /\ pst' = [pst EXCEPT ![h].pc = "fatal"]
                    /\ UNCHANGED <<ct, disk>>
               ELSE /\ ct' = [ct EXCEPT !.logs[id] = r.ld]
                    /\ disk' = r.disk
                    /\ pst' = [pst EXCEPT ![h].pc = "release",
                                          ![h].wrote = [cmds |-> r.cmds,
                                                        first |-> ct.logs[id].first,
                                                        last |-> ct.logs[id].last],
                                          ![h].epoch = gh.applied[id]]
  /\ UNCHANGED <<seqVars, hist, out, prod, rd, gh>>

\* a reduceLog that returns with the mutex of the view held
persistKeepsLock(h) ==
  /\ pst[h].pc = "release"
  /\ pst' = [pst EXCEPT ![h] = IdlePst(@.secDisk)]
  /\ UNCHANGED <<seqVars, hist, out, disk, ct, prod, rd, gh>>

\* reduceLog after persistTable: the count under Immediately, resetViewState, Unlock
PersistRelease(h) ==
  /\ pst[h].pc = "release"
  /\ LET id == pst[h].event.table
         keep == cfg.Tick = Immediately /\ pst[h].count + 1 < resetOnImmediately
     IN  IF keep
         THEN /\ ct' = [ct EXCEPT !.mu[id] = FALSE]
              /\ pst' = [pst EXCEPT ![h] = [IdlePst(@.secDisk) EXCEPT !.count = pst[h].count + 1]]
              /\ gh' = gh
         ELSE /\ ct' = [resetViewState(ct, id) EXCEPT !.mu[id] = FALSE]
              /\ pst' = [pst EXCEPT ![h] = IdlePst(@.secDisk)]
              /\ gh' = [gh EXCEPT !.applied[id] = <<>>]
  /\ UNCHANGED <<seqVars, hist, out, disk, prod, rd>>

\* handleReduce: case <-ctx.Done(), whatever loggerReq holds
PersistExit(h) ==
  /\ pst[h].pc = "idle"
  /\ ct.cancelled
  /\ pst' = [pst EXCEPT ![h].pc = "exited"]
  /\ UNCHANGED <<seqVars, hist, out, disk, ct, prod, rd, gh>>

\* ConcTable.Shutdown
Shutdown ==
  /\ variant = "ConcTable"
  /\ ~ct.cancelled
  /\ ct' = [ct EXCEPT !.cancelled = TRUE]
  /\ UNCHANGED <<seqVars, hist, out, disk, prod, pst, rd, gh>>

\* ConcTable.Recov(p, n) with n < p
RecovInvalid(r) ==
  /\ rd[r].pc = "idle"
  /\ gh.nRecov < gh.budget
  /\ \E p \in 0..1, n \in 0..1 :
       /\ n < p
       /\ out' = [kind |-> "recov", alg |-> cfg.Alg, p |-> p, n |-> n, log |-> <<>>,
                  err |-> "invalid interval request", panic |-> FALSE, reduces |-> 0]
  /\ gh' = [gh EXCEPT !.nRecov = @ + 1]
  /\ UNCHANGED <<seqVars, hist, disk, ct, prod, pst, rd>>

\* Recov(p, n) with p <= n: readAndAdvanceCurrentView, under curMu
RecovAdvance(r) ==
  /\ rd[r].pc = "idle"
  /\ gh.nRecov < gh.budget
  /\ CanLock(ct.curMu)
  /\ \E iv \in CtIntervals :
       rd' = [rd EXCEPT ![r] = [IdleRd EXCEPT !.pc = "decide", !.cur = ct.current,
                                             !.p = iv[1], !.n = iv[2],
                                             !.alone = (prod.pc = "idle")]]
  /\ ct' = [ct EXCEPT !.current = advanceCurrentView(ct)]
  /\ gh' = [gh EXCEPT !.nRecov = @ + 1, !.moved = TRUE]
  /\ UNCHANGED <<seqVars, hist, out, disk, prod, pst>>

\* mayExecuteLazyReduce: which branch is taken
RecovDecide(r) ==
  /\ rd[r].pc = "decide"
  /\ LET id == rd[r].cur
         lazy == \/ cfg.Tick = Delayed
                 \/ cfg.Tick = Interval /\ ~firstReduceExists(cfg, ct.logs[id], disk)
     IN  rd' = [rd EXCEPT ![r].pc = IF lazy THEN "lock" ELSE "read"]
  /\ UNCHANGED <<seqVars, hist, out, disk, ct, prod, pst, gh>>

\* mayExecuteLazyReduce: ct.mu[id].Lock()
RecovLockView(r) ==
  /\ rd[r].pc = "lock"
  /\ CanLock(ct.mu[rd[r].cur])
  /\ ct' = [ct EXCEPT !.mu[rd[r].cur] = TRUE]
  /\ rd' = [rd EXCEPT ![r].pc = "persist"]
  /\ UNCHANGED <<seqVars, hist, out, disk, prod, pst, gh>>

\* mayExecuteLazyReduce: persistTable(id, false); an error returns with the mutex held
RecovPersist(r) ==
  /\ rd[r].pc = "persist"
  /\ LET id == rd[r].cur
     IN  \E ord \in KeyOrders(DOMAIN ct.views[id]) :
           LET res == persistTable(cfg, ct, disk, id, FALSE, ord)
           IN  IF res.err # ""
               THEN /\ rd' = [rd EXCEPT ![r] = IdleRd]
                    /\ out' = [kind |-> "recov", alg |-> cfg.Alg, p |-> rd[r].p,
                               n |-> rd[r].n, log |-> <<>>, err |-> res.err, panic |-> FALSE,
                               reduces |-> 1]
                    /\ UNCHANGED <<ct, disk, gh>>
               ELSE /\ ct' = [ct EXCEPT !.logs[id] = res.ld]
                    /\ disk' = res.disk
                    /\ rd' = [rd EXCEPT ![r].pc = "read", ![r].exec = TRUE,
                                         ![r].wrote = res.cmds]
                    /\ out' = out
                    /\ gh' = [gh EXCEPT !.lazies = @ + 1]
  /\ UNCHANGED <<seqVars, hist, prod, pst>>

\* Recov: retrieveLog from the reduced view and the deferred Unlock, or from logs[prevLog]
RecovRead(r) ==
  /\ rd[r].pc = "read"
  /\ LET id == IF rd[r].exec THEN rd[r].cur ELSE ct.prevLog
         g  == retrieveLog(cfg, ct.logs[id], disk)
     IN  /\ out' = [kind |-> "recov", alg |-> cfg.Alg, p |-> rd[r].p, n |-> rd[r].n,
                    log |-> g.cmds, err |-> g.err, panic |-> g.panic,
                    reduces |-> IF rd[r].exec THEN 1 ELSE 0]
         /\ ct' = IF rd[r].exec THEN [ct EXCEPT !.mu[id] = FALSE] ELSE ct
  /\ rd' = [rd EXCEPT ![r] = IdleRd]
  /\ UNCHANGED <<seqVars, hist, disk, prod, pst, gh>>

\* a call of RecovEntireLog on a persistent configuration
EntireLog ==
  /\ variant = "ConcTable"
  /\ ~cfg.Inmem
  /\ LET r == RecovEntireLog(disk)
     IN  out' = [NoOut EXCEPT !.kind = "entire", !.log = r.cmds, !.n = r.count]
  /\ UNCHANGED <<seqVars, hist, disk, ctVars>>

NextCT ==
  \/ LogEnter
  \/ LogLockView
  \/ LogWriteView
  \/ LogFinish
  \/ \E h \in DOMAIN pst : PersistReceive(h)
  \/ \E h \in DOMAIN pst : PersistTable(h)
  \/ \E h \in DOMAIN pst : PersistRelease(h)
  \/ \E r \in DOMAIN rd : RecovInvalid(r)
  \/ \E r \in DOMAIN rd : RecovAdvance(r)
  \/ \E r \in DOMAIN rd : RecovDecide(r)
  \/ \E r \in DOMAIN rd : RecovLockView(r)
  \/ \E r \in DOMAIN rd : RecovPersist(r)
  \/ \E r \in DOMAIN rd : RecovRead(r)
  \/ EntireLog

SpecCT == InitCT /\ [][NextCT]_vars

\* ------------------------------------------------------------ ConcTable shut down
InitDown == InitCT /\ cfg.Inmem

NextDown ==
  \/ LogEnter
  \/ LogLockView
  \/ LogWriteView
  \/ LogFinish
  \/ \E h \in DOMAIN pst : PersistReceive(h)
  \/ \E h \in DOMAIN pst : PersistTable(h)
  \/ \E h \in DOMAIN pst : PersistRelease(h)
  \/ \E h \in DOMAIN pst : PersistExit(h)
  \/ Shutdown

SpecDown == InitDown /\ [][NextDown]_vars

\* ------------------------------------------------------------ reducer runs
\* a ConcTable used by one goroutine: Delayed, so that no view is handed off
InitView == InitCT /\ cfg.Tick = Delayed /\ cfg.Inmem

InitSeq == InitStruct \/ InitView

\* a call of ApplyReduceAlgo(ct, r, p, n) between two Log calls: Len() of the current
\* view, retrieveCurrentViewCopy, IterConcTableOnView; p and n are not read
ReduceView ==
  /\ variant = "ConcTable"
  /\ prod.pc = "idle"
  /\ CanLock(ct.curMu)
  /\ \E r \in {cfg.Alg}, ord \in KeyOrders(DOMAIN ct.views[ct.current]) :
       out' = IF Cardinality(DOMAIN ct.views[ct.current]) < 1
              THEN [NoOut EXCEPT !.kind = "reduce", !.alg = r, !.err = "empty structure"]
              ELSE IF r # "IterConcTable"
              THEN [NoOut EXCEPT !.kind = "reduce", !.alg = r,
                                 !.err = "unsupported reduce algorithm"]
              ELSE [NoOut EXCEPT !.kind = "reduce", !.alg = r,
                                 !.log = IterConcTableOnView(ct.views[ct.current], ord)]
  /\ UNCHANGED <<seqVars, hist, disk, ctVars>>

\* the reducers called on a structure as it is built
NextSeq ==
  \/ LogList
  \/ LogArray
  \/ LogAVL
  \/ LogCirc
  \/ CircHandleReduce
  \/ Reduce
  \/ LogEnter
  \/ LogLockView
  \/ LogWriteView
  \/ LogFinish
  \/ ReduceView

SpecSeq == InitSeq /\ [][NextSeq]_vars

\* Log and Recov called on a structure
NextApi ==
  \/ LogList
  \/ LogArray
  \/ LogAVL
  \/ LogCirc
  \/ CircHandleReduce
  \/ RecovSeq
  \/ RecovCirc

SpecApi == InitStruct /\ [][NextApi]_vars


\* ------------------------------------------------------------ concurrent Recov on a ListHT
\* the goroutines that call Recov at the same time, once each
Readers == {1, 2}

\* the intervals they ask for
RdIntervals == {<<p, n>> \in (1..MaxCmds) \X (1..MaxCmds) : p <= n}

\* a reader: its interval, the node the walk of GreedyListHT is at, the log it has
\* built, and what its call returned
IdleReader == [pc |-> "idle", p |-> 0, n |-> 0, i |-> 0, log |-> <<>>, res |-> <<>>, err |-> ""]

InitRd ==
  /\ variant = "ListHT"
  /\ cfg = LogConfig(TRUE, FALSE, "GreedyLt", Delayed, 2, FALSE)
  /\ st = NewListHT
  /\ rd = [r \in Readers |-> IdleReader]
  /\ hist = <<>>
  /\ out = NoOut
  /\ disk = EmptyMap
  /\ ct = NewConcTable(1)
  /\ prod = IdleProd
  /\ pst = <<>>
  /\ gh = NoGh(1)

\* Recov(p, n): l.mu.RLock(), mayExecuteLazyReduce under Delayed, ReduceLog,
\* ApplyReduceAlgo up to the call of GreedyListHT
RdBegin(r) ==
  /\ rd[r].pc = "idle"
  /\ \E iv \in RdIntervals :
       rd' = [rd EXCEPT ![r] =
                IF Len(st.lt) < 1
                THEN [IdleReader EXCEPT !.pc = "done", !.p = iv[1], !.n = iv[2],
                                        !.err = "empty structure"]
                ELSE [IdleReader EXCEPT !.pc = "reset", !.p = iv[1], !.n = iv[2]]]
  /\ UNCHANGED <<seqVars, hist, out, disk, ct, prod, pst, gh>>

\* GreedyListHT: resetVisitedValues and searchEntryNodeByIndex(p)
RdReset(r) ==
  /\ rd[r].pc = "reset"
  /\ st' = [st EXCEPT !.aux = resetVisitedValues(@)]
  /\ rd' = [rd EXCEPT ![r].pc = "walk", ![r].i = searchEntryNodeByIndex(st.lt, rd[r].p)]
  /\ UNCHANGED <<variant, cfg, hist, out, disk, ct, prod, pst, gh>>

\* GreedyListHT: one iteration of the walk, or its end
RdVisit(r) ==
  /\ rd[r].pc = "walk"
  /\ LET i == rd[r].i
     IN  IF i = 0 \/ st.lt[i].ind > rd[r].n
         THEN /\ rd' = [rd EXCEPT ![r].pc = "update"]
              /\ st' = st
         ELSE LET acc == greedyVisit(st.lt[i], rd[r].n,
                                     [log |-> rd[r].log, aux |-> st.aux, panic |-> FALSE])
              IN  /\ rd' = [rd EXCEPT ![r].log = acc.log, ![r].i = nextNode(st.lt, i)]
                  /\ st' = [st EXCEPT !.aux = acc.aux]
  /\ UNCHANGED <<variant, cfg, hist, out, disk, ct, prod, pst, gh>>

\* updateLogState: ld.recentLog = &lg
RdUpdate(r) ==
  /\ rd[r].pc = "update"
  /\ LET u == updateLogState(cfg, st.ld, disk, rd[r].log, rd[r].p, rd[r].n, FALSE)
     IN  /\ st' = [st EXCEPT !.ld = u.ld]
         /\ disk' = u.disk
  /\ rd' = [rd EXCEPT ![r].pc = "retrieve"]
  /\ UNCHANGED <<variant, cfg, hist, out, ct, prod, pst, gh>>

\* retrieveLog and l.mu.RUnlock()
RdRetrieve(r) ==
  /\ rd[r].pc = "retrieve"
  /\ LET g == retrieveLog(cfg, st.ld, disk)
     IN  rd' = [rd EXCEPT ![r].pc = "done", ![r].res = g.cmds, ![r].err = g.err]
  /\ UNCHANGED <<seqVars, hist, out, disk, ct, prod, pst, gh>>

NextRd ==
  \/ LogList
  \/ \E r \in DOMAIN rd : RdBegin(r)
  \/ \E r \in DOMAIN rd : RdReset(r)
  \/ \E r \in DOMAIN rd : RdVisit(r)
  \/ \E r \in DOMAIN rd : RdUpdate(r)
  \/ \E r \in DOMAIN rd : RdRetrieve(r)

SpecRd == InitRd /\ [][NextRd]_vars

\* what Recov(p, n) returns when no other call runs
RunAlone(p, n) == Recov("ListHT", cfg, st, disk, p, n)

\* C9: under Delayed, each of two concurrent Recov calls on a ListHT returns what it
\* would return if it ran alone
C9_ReadersIsolated ==
  \A r \in DOMAIN rd :
    rd[r].pc = "done" =>
      /\ rd[r].res = RunAlone(rd[r].p, rd[r].n).cmds
      /\ rd[r].err = RunAlone(rd[r].p, rd[r].n).err

\* ------------------------------------------------------------ ConcTable properties
\* a persister or an inline lazy reduce is serializing or resetting view v
Busy(v) ==
  \/ \E h \in DOMAIN pst : pst[h].pc \in {"persist", "release"} /\ pst[h].event.table = v
  \/ \E r \in DOMAIN rd : /\ rd[r].cur = v
                          /\ rd[r].pc = "persist" \/ (rd[r].pc = "read" /\ rd[r].exec)

\* a step of the Log call
LogStep == prod' # prod

\* a logData without its interval counter
Extents(ld) == [ld EXCEPT !.count = 0]

\* what a persister has written covers its view up to the hand-off, and nothing else
Contained ==
  \A h \in DOMAIN pst :
    pst[h].pc = "release" =>
      LET w == pst[h].wrote
          e == pst[h].epoch
      IN  /\ e # <<>>
          /\ e[Len(e)].id = pst[h].event.upto
          /\ w.first = e[1].id
          /\ w.last = pst[h].event.upto
          /\ Exec(w.cmds) = Exec(e)
          /\ Len(w.cmds) = Cardinality(DOMAIN Exec(e))

WaitsForWrite ==
  /\ prod.pc = "lock"
  /\ \E h \in DOMAIN pst : pst[h].pc = "persist" /\ pst[h].event.table = prod.cur

Quiescent ==
  /\ prod.pc = "idle"
  /\ ct.loggerReq = <<>>
  /\ \A h \in DOMAIN pst : pst[h].pc = "idle"

Files(loc) == {f \in DOMAIN disk : f.loc = loc}

\* k blocks of Period commands were logged and flushed, with no Recov call
Flushed(k) ==
  /\ cfg.Tick = Interval /\ ~cfg.Inmem /\ cfg.KeepAll
  /\ gh.nRecov = 0
  /\ Quiescent
  /\ Len(hist) = k * cfg.Period

\* C7: with one persister, after k blocks of Period commands the catalog holds k
\* files, the i-th covering the i-th block of ids, and the segments of RecovEntireLog
\* replayed in order give the map that executing the whole input gives
C7_CatalogCoversInput ==
  \A k \in 1..CtCmds :
    (~cfg.ParallelIO /\ Flushed(k)) =>
      LET r == RecovEntireLog(disk)
      IN  /\ r.count = k
          /\ \A i \in 1..k :
               /\ disk[r.files[i]].first = CtFirstId + (i - 1) * cfg.Period
               /\ disk[r.files[i]].last = CtFirstId + i * cfg.Period - 1
          /\ Exec(r.cmds) = Exec(hist)

\* RecovEntireLog returned three one-command files, the third with a longer name
C7_Witness ==
  /\ ~cfg.ParallelIO /\ Flushed(3)
  /\ out.kind = "entire" /\ out.n = 3 /\ out.log = RecovEntireLog(disk).cmds
  /\ cfg.Period = 1 /\ ct.concLevel = 2
  /\ \E f \in Files("primary") : Len(FileName(f)) = 2
  /\ \E f \in Files("primary") : Len(FileName(f)) = 1

\* C8: under parallelIO and Interval, after k flushes the files written to the primary
\* and to the secondary location differ in number by at most 1, by none when k is even
C8_FilesAlternate ==
  \A k \in 1..CtCmds :
    (cfg.ParallelIO /\ Flushed(k)) =>
      LET np == Cardinality(Files("primary"))
          ns == Cardinality(Files("secondary"))
      IN  /\ np - ns <= 1 /\ ns - np <= 1
          /\ k % 2 = 0 => np = ns

\* C10: once the persisters have exited, loggerReq holds no event that was enqueued
\* before the cancellation, and no view handed off before it is left locked
C10_EventsDrainedAtExit ==
  (\A h \in DOMAIN pst : pst[h].pc = "exited") =>
     \A i \in DOMAIN ct.loggerReq : ct.loggerReq[i].late

\* ------------------------------------------------------------ prevLog
\* persister h ends a pass on view v, having reset it
EndsPass(h, v) ==
  /\ pst[h].pc = "release" /\ pst'[h].pc = "idle"
  /\ pst[h].event.table = v
  /\ ct'.views[v] = EmptyMap /\ ~ct'.logs[v].logged

\* C11: when a persister pass has persisted and reset view v, prevLog is v, the view
\* a Recov call that reduces nothing reads its log from
C11_PrevLogPublished ==
  [][\A h \in DOMAIN pst : \A v \in DOMAIN ct.views : EndsPass(h, v) => ct'.prevLog = v]_vars

\* a Recov call is about to read logs[prevLog], whose mutex it does not hold
ReadsPrevLog(r) == rd[r].pc = "read" /\ ~rd[r].exec

\* the Log call, holding the mutex of view v, is about to write the first, logged and
\* last of logs[v]
LogWrites(v) == prod.pc \in {"first", "last"} /\ prod.cur = v

\* a persister, holding the mutex of view v, is about to write the recentLog or the
\* file of logs[v], or to reset its first, last and logged
PersisterWrites(v) ==
  \E h \in DOMAIN pst : pst[h].pc \in {"persist", "release"} /\ pst[h].event.table = v

\* C12: while a Recov call reads logs[prevLog] without its mutex, neither the Log call
\* nor a persister is writing that logData
C12_PrevLogReadAlone ==
  \A r \in DOMAIN rd :
    ReadsPrevLog(r) => ~LogWrites(ct.prevLog) /\ ~PersisterWrites(ct.prevLog)

\* ------------------------------------------------------------ ConcTable under Delayed
\* Recov calls made on a ConcTable that reduces on Recov only
LazyRecov == 2

\* Delayed with each kind of storage: in memory, one file, a file per reduce
LazyConfigs ==
  {LogConfig(TRUE, FALSE, "IterConcTable", Delayed, 1, FALSE),
   LogConfig(FALSE, FALSE, "IterConcTable", Delayed, 1, FALSE),
   LogConfig(FALSE, TRUE, "IterConcTable", Delayed, 1, FALSE)}

InitLazy == InitTable(LazyConfigs, LazyRecov)

\* no event is ever sent on loggerReq under Delayed: the persisters stay in their select
NextLazy ==
  \/ LogEnter
  \/ LogLockView
  \/ LogWriteView
  \/ LogFinish
  \/ \E r \in DOMAIN rd : RecovInvalid(r)
  \/ \E r \in DOMAIN rd : RecovAdvance(r)
  \/ \E r \in DOMAIN rd : RecovDecide(r)
  \/ \E r \in DOMAIN rd : RecovLockView(r)
  \/ \E r \in DOMAIN rd : RecovPersist(r)
  \/ \E r \in DOMAIN rd : RecovRead(r)

SpecLazy == InitLazy /\ [][NextLazy]_vars

\* a Recov call that reduces its view holds the view's mutex from its persist to its read
LazyHoldsView ==
  \A r \in DOMAIN rd :
    (rd[r].pc = "persist" \/ (rd[r].pc = "read" /\ rd[r].exec)) => ct.mu[rd[r].cur]

\* the Recov call of reader r returns, having reduced its view
LazyReturns(r) == rd[r].pc = "read" /\ rd[r].exec /\ rd'[r].pc = "idle"

\* C13: under Delayed, with the log in memory, in one file or in a file per reduce, a
\* Recov call holds mu[cur] from its persist to its read and returns the command list
\* its persist has just written
C13_LazyReadsOwnWrite ==
  /\ []LazyHoldsView
  /\ [][\A r \in DOMAIN rd :
          LazyReturns(r) => out'.err = "" /\ ~out'.panic /\ out'.log = rd[r].wrote]_vars

\* the Recov(p, n) call of reader r returns a log, no Log call having run since it
\* was called
RecovReturns(r) ==
  /\ rd[r].pc = "read" /\ rd'[r].pc = "idle"
  /\ rd[r].alone /\ gh.moved
  /\ out'.err = "" /\ ~out'.panic

\* C14: under Delayed, the log Recov(p, n) returns holds only commands with an id in
\* [p, n] and amounts to the logged SETs with id in [p, n]
C14_RecovFollowsInterval ==
  [][\A r \in DOMAIN rd :
       (cfg.Tick = Delayed /\ RecovReturns(r)) =>
         /\ \A i \in DOMAIN out'.log :
              out'.log[i].id >= rd[r].p /\ out'.log[i].id <= rd[r].n
         /\ Exec(out'.log) = NetEffect(rd[r].p, rd[r].n)]_vars

\* ---------------------------------------------------------------------------
\* The reduce schedules, on the five structures
\* ---------------------------------------------------------------------------

\* Recov calls made on a ConcTable in the runs about the schedules
TickRecov == 2

\* the in-memory configurations of a ConcTable, one per schedule
TickConfigs == {LogConfig(TRUE, FALSE, "IterConcTable", s[1], s[2], FALSE) : s \in CtSchedules}

InitTick == InitStruct \/ InitTable(TickConfigs, TickRecov)

NextTick ==
  \/ LogList
  \/ LogArray
  \/ LogAVL
  \/ LogCirc
  \/ CircHandleReduce
  \/ RecovSeq
  \/ RecovCirc
  \/ LogEnter
  \/ LogLockView
  \/ LogWriteView
  \/ LogFinish
  \/ \E h \in DOMAIN pst : PersistReceive(h)
  \/ \E h \in DOMAIN pst : PersistTable(h)
  \/ \E h \in DOMAIN pst : PersistRelease(h)
  \/ \E r \in DOMAIN rd : RecovInvalid(r)
  \/ \E r \in DOMAIN rd : RecovAdvance(r)
  \/ \E r \in DOMAIN rd : RecovDecide(r)
  \/ \E r \in DOMAIN rd : RecovLockView(r)
  \/ \E r \in DOMAIN rd : RecovPersist(r)
  \/ \E r \in DOMAIN rd : RecovRead(r)

SpecTick == InitTick /\ [][NextTick]_vars

\* the command of the Log call that is returning or has just returned
LastLogged == hist[Len(hist)]

\* a step in which a Log call on a ListHT, ArrayHT, AVLTreeHT or CircBuffHT runs
LogRuns == variant # "ConcTable" /\ hist' # hist

\* a step of a Log call on a ConcTable, from its entry to its return
LogStepOn(op) == variant = "ConcTable" /\ prod' # prod /\ (prod.cmd.op = op \/ prod'.cmd.op = op)

\* the bookkeeping of a view, its last index left out
ButLast(ld) == [ld EXCEPT !.last = 0]

\* a Log call that has returned under 'Immediately' ran one reduce for a SET, none for a GET
ImmediateReduces ==
  (cfg.Tick = Immediately /\ out.kind = "log")
    => out.reduces = (IF LastLogged.op = "SET" THEN 1 ELSE 0)

\* a Log call of a GET under 'Immediately' changes nothing of the structure but 'last'
GetOnlySetsLast ==
  /\ (cfg.Tick = Immediately /\ LogRuns /\ hist'[Len(hist')].op = "GET")
       => /\ disk' = disk
          /\ st' = [st EXCEPT !.ld.last = st'.ld.last]
  /\ (cfg.Tick = Immediately /\ LogStepOn("GET"))
       => /\ disk' = disk
          /\ ct'.views = ct.views
          /\ \A v \in DOMAIN ct.logs : ButLast(ct'.logs[v]) = ButLast(ct.logs[v])

\* C15: under the 'Immediately' schedule, in all five structures, a Log call of a
\* SET runs exactly one reduce before it returns, and a Log call of a GET runs no
\* reduce and only sets 'last'.
C15_ImmediatelyReducesOnSet == []ImmediateReduces /\ [][GetOnlySetsLast]_vars

\* under 'Delayed' nothing waits to be reduced in the background and no persister runs
NoneQueued ==
  /\ variant = "CircBuffHT" => st.reduceReq = <<>>
  /\ variant = "ConcTable" => ct.loggerReq = <<>> /\ \A h \in DOMAIN pst : pst[h].pc = "idle"

FillsBuffer ==
  variant = "CircBuffHT"
    /\ (IF hist'[Len(hist')].op = "SET" THEN st.len + 1 ELSE st.len) = st.cap

\* under 'Delayed' a Log call on a ConcTable never hands a view to a persister
TableNeverHandsOff ==
  (cfg.Tick = Delayed /\ variant = "ConcTable")
    => (out.kind = "log" => out.reduces = 0) /\ NoneQueued

C17_ReducesEveryPeriod ==
  (cfg.Tick = Interval /\ out.kind = "log")
    => (out.reduces >= 1 <=> Len(hist) % cfg.Period = 0)

\* under 'Interval', fewer Log calls than the period have been made: no counter
\* of logged commands has reached the period yet
BeforeFirstPeriod == cfg.Tick = Interval /\ Len(hist) < cfg.Period

\* a Recov call has returned a log
Recovered == out.kind = "recov" /\ out.err = "" /\ ~out.panic

\* C18: under the 'Interval' schedule, among the Recov calls made before the first
\* reduce that the period triggers, only the first one runs a reduce; every later
\* call returns the reduced state without reducing again, in every structure.
C18_OnlyFirstRecovReduces ==
  BeforeFirstPeriod => gh.lazies <= 1 /\ (Recovered => gh.lazies = 1)

\* ---------------------------------------------------------------------------
\* The reset of a view under 'Immediately'
\* ---------------------------------------------------------------------------

\* the commands of a run of 'count' Log calls, each a SET of key "a"
Writes(count) == [i \in 1..count |-> SetCmd(CtFirstId + i - 1, "a")]

\* a ConcTable after the Log calls of 'cmds' (SETs of one key, on view 0) have
\* returned and the persister has served the event of each of them: the view
\* holds the last command, 'first' is the first index ever logged, recentLog is
\* what the last pass stored, and the persister has counted every event
AfterWrites(c, lvl, cmds) ==
  LET t0   == NewConcTable(lvl)
      lst  == cmds[Len(cmds)]
      t1   == [t0 EXCEPT !.views[0] = [k \in {lst.key} |-> State(lst)],
                         !.logs[0].first = cmds[1].id,
                         !.logs[0].last = lst.id,
                         !.logs[0].logged = TRUE]
      r    == persistTable(c, t1, EmptyMap, 0, FALSE, <<lst.key>>)
  IN  [ct |-> [t1 EXCEPT !.logs[0] = r.ld], disk |-> r.disk,
       pst |-> <<[IdlePst(FALSE) EXCEPT !.count = Len(cmds)]>>,
       gh |-> [NoGh(lvl) EXCEPT !.applied[0] = cmds, !.handed = 0, !.prior = Len(cmds)]]

\* Recov calls made on the table whose persister is about to saturate
SatRecov == 1

\* the in-memory configuration under 'Immediately'
SatConfigs == {LogConfig(TRUE, FALSE, "IterConcTable", Immediately, 1, FALSE)}

\* a ConcTable one event short of resetOnImmediately
InitSat ==
  /\ variant = "ConcTable"
  /\ cfg \in SatConfigs
  /\ hist = Writes(resetOnImmediately - 1)
  /\ \E lvl \in ConcLevels :
       LET a == AfterWrites(cfg, lvl, hist)
       IN  /\ ct = a.ct
           /\ disk = a.disk
           /\ pst = a.pst
           /\ gh = [a.gh EXCEPT !.budget = SatRecov]
  /\ rd = [r \in 1..NumReaders |-> IdleRd]
  /\ prod = IdleProd
  /\ st = NewListHT
  /\ out = [NoOut EXCEPT !.kind = "log", !.reduces = 1]

NextSat ==
  \/ LogEnter
  \/ LogLockView
  \/ LogWriteView
  \/ LogFinish
  \/ \E h \in DOMAIN pst : PersistReceive(h)
  \/ \E h \in DOMAIN pst : PersistTable(h)
  \/ \E h \in DOMAIN pst : PersistRelease(h)
  \/ \E r \in DOMAIN rd : RecovInvalid(r)
  \/ \E r \in DOMAIN rd : RecovAdvance(r)
  \/ \E r \in DOMAIN rd : RecovDecide(r)
  \/ \E r \in DOMAIN rd : RecovRead(r)

SpecSat == InitSat /\ [][NextSat]_vars

\* persister h ends a pass over view v
Passes(h, v) == pst[h].pc = "release" /\ pst'[h].pc = "idle" /\ pst[h].event.table = v

\* C19: on a ConcTable under 'Immediately' each view has its own saturation
\* counter: the state of view v (table, first, last, logged) is reset exactly
\* when resetOnImmediately commands have been logged on v since its last reset,
\* whatever was logged on the other views, and never earlier.
C19_ResetWhenViewSaturates ==
  [][\A h \in DOMAIN pst : \A v \in DOMAIN ct.views :
       (cfg.Tick = Immediately /\ Passes(h, v))
         => (EndsPass(h, v) <=> Len(gh.applied[v]) = resetOnImmediately)]_vars

\* ---------------------------------------------------------------------------
\* The capacity window of a CircBuffHT
\* ---------------------------------------------------------------------------

\* the commands logged so far are SETs of distinct keys
DistinctSets ==
  /\ \A i \in DOMAIN hist : hist[i].op = "SET"
  /\ \A i, j \in DOMAIN hist : i # j => hist[i].key # hist[j].key

\* one reduce issued by the Log calls, and the buffer bookkeeping reset
OneReduceAndReset ==
  gh.issued = 1 /\ st.ld.first = 0 /\ st.ld.last = 0 /\ st.len = 0

\* C20: on a CircBuffHT of capacity cap, after cap + 1 SETs with distinct keys
\* have been logged, exactly one reduce has been issued and the structure state
\* is reset: first = 0, last = 0 and Len() = 0.
C20_ResetAfterCapPlusOne ==
  (variant = "CircBuffHT" /\ Len(hist) = st.cap + 1 /\ DistinctSets) => OneReduceAndReset

\* ---------------------------------------------------------------------------
\* The extents of a view
\* ---------------------------------------------------------------------------

\* the Log call has written 'first' on view v and not yet 'last'
MidLog(v) == prod.pc = "last" /\ prod.cur = v

\* first <= last on a logged view, both 0 on a view that is not
ExtentsInOrder(v) ==
  /\ ct.logs[v].logged => ct.logs[v].first <= ct.logs[v].last
  /\ ~ct.logs[v].logged => ct.logs[v].first = 0 /\ ct.logs[v].last = 0

C22_ExtentsStrictlyIncrease ==
  Len(gh.reds) = 2
    => gh.reds[2].first > gh.reds[1].first /\ gh.reds[2].last > gh.reds[1].last

\* C22, amended: under a single producer, of any two consecutive reductions that
\* Log calls issue on a structure (in every schedule), the later one is issued
\* with a strictly greater last than the earlier one; its first need not be greater.
C22_LastStrictlyIncreases ==
  Len(gh.reds) = 2 => gh.reds[2].last > gh.reds[1].last

\* two SETs on a ListHT under 'Immediately': two reductions, over [1, 1] and [1, 2]
C22_Witness ==
  /\ variant = "ListHT"
  /\ cfg.Tick = Immediately
  /\ Len(gh.reds) = 2
  /\ gh.reds[1].first = gh.reds[2].first
  /\ gh.reds[1].last < gh.reds[2].last

\* ---------------------------------------------------------------------------
\* Recov on an invalid interval
\* ---------------------------------------------------------------------------

\* a Recov(p, n) call with n < p is made and returns in this step
InvalidCall ==
  /\ gh'.nRecov = gh.nRecov + 1
  /\ rd' = rd
  /\ out'.kind = "recov"
  /\ out'.n < out'.p

\* C23: in all five structures a Recov(p, n) with n < p returns the
\* invalid-interval error and changes nothing: no reduce runs, no log state is
\* written, the cursor of a ConcTable is not advanced and no mutex remains held.
C23_InvalidIntervalChangesNothing ==
  [][InvalidCall
       => /\ out'.err = "invalid interval request"
          /\ out'.log = <<>>
          /\ out'.reduces = 0
          /\ st' = st
          /\ disk' = disk
          /\ ct' = ct
          /\ pst' = pst
          /\ prod' = prod
          /\ hist' = hist]_vars

\* a ListHT under 'Delayed' that holds commands and has just refused an interval
C23_Witness ==
  /\ variant = "ListHT"
  /\ cfg.Tick = Delayed
  /\ hist # <<>>
  /\ out.kind = "recov"
  /\ out.n < out.p
  /\ out.err = "invalid interval request"
  /\ ~st.ld.recentLog.set

\* ---------------------------------------------------------------------------
\* Intervals that miss the structure
\* ---------------------------------------------------------------------------

\* the last call was ApplyReduceAlgo on a ListHT, ArrayHT or AVLTreeHT that holds
\* entries, over a valid interval that lies after its last index or before its first
MissedInterval ==
  /\ variant \in {"ListHT", "ArrayHT", "AVLTreeHT"}
  /\ out.kind = "reduce"
  /\ StructLen(variant, st) >= 1
  /\ out.p <= out.n
  /\ (out.p > st.ld.last \/ out.n < st.ld.first)

\* C24: the interval reducers of ListHT, ArrayHT and AVLTreeHT return an empty
\* command list and no error when p is greater than the structure's last index
\* or n is smaller than its first index.
C24_MissedIntervalIsEmpty ==
  MissedInterval => out.log = <<>> /\ out.err = "" /\ ~out.panic

\* ------------------------------------------------------------ repeated indexes
\* Log calls made on an AVLTreeHT whose producer repeats an index
DupCmds == 4

\* the indexes of the entries of a tree
RECURSIVE avlInds(_)
avlInds(node) ==
  IF node.isNil THEN {} ELSE {node.ind} \cup avlInds(node.left) \cup avlInds(node.right)

InitDup == InitStruct /\ variant = "AVLTreeHT"

\* a call of Log on the AVLTreeHT with a SET whose index an entry of the tree has
LogAVLAgain ==
  /\ variant = "AVLTreeHT"
  /\ Len(hist) < DupCmds
  /\ \E i \in avlInds(st.root), k \in Keys :
       \E r \in {AVLLog(cfg, st, disk, SetCmd(i, k))} :
           /\ st' = r.s
           /\ disk' = r.disk
           /\ hist' = Append(hist, SetCmd(i, k))
           /\ out' = [NoOut EXCEPT !.kind = "log", !.err = r.err, !.reduces = r.reduces]
           /\ gh' = [gh EXCEPT !.reds = Issue(@, r.reduces, r.s.ld.first, r.s.ld.last)]
  /\ UNCHANGED <<variant, cfg, ct, prod, pst, rd>>

NextDup ==
  \/ LogAVL
  \/ LogAVLAgain

SpecDup == InitDup /\ [][NextDup]_vars

\* the Log call that returns is of a SET whose index is in the tree
RepeatsIndex ==
  /\ hist' # hist
  /\ hist'[Len(hist')].op = "SET"
  /\ hist'[Len(hist')].id \in avlInds(st.root)

\* C25: a Log of a SET whose index an entry of the tree has, at the root or deeper,
\* returns the error of equal keys and leaves the entries of the tree and Len() as
\* they were
C25_DuplicateIndexRejected ==
  [][RepeatsIndex => /\ out'.err = "cannot insert equal keys on BSTs"
                     /\ st'.root = st.root
                     /\ st'.len = st.len]_vars

\* ------------------------------------------------------------ GET commands
\* DefaultLogConfig(): in memory, Delayed
IsDefault == cfg.Inmem /\ cfg.Tick = Delayed

\* the first SET command of a sequence of commands, ZeroCmd if it has none
FirstSet(h) ==
  LET sets == {i \in DOMAIN h : h[i].op = "SET"}
  IN  IF sets = {} THEN ZeroCmd ELSE h[CHOOSE i \in sets : \A j \in sets : i <= j]

\* a Log call of a GET on a ListHT, ArrayHT, AVLTreeHT or CircBuffHT leaves Len() and
\* first as they were and sets last
GetOnStruct ==
  LogRuns /\ hist'[Len(hist')].op = "GET"
    => /\ StructLen(variant, st') = StructLen(variant, st)
       /\ st'.ld.first = st.ld.first
       /\ st'.ld.last = hist'[Len(hist')].id

\* the same of a Log call of a GET on a ConcTable, at each of its steps
GetOnTable ==
  LogStepOn("GET")
    => /\ Cardinality(DOMAIN ct'.views[ct'.current]) = Cardinality(DOMAIN ct.views[ct.current])
       /\ \A v \in DOMAIN ct.logs : ct'.logs[v].first = ct.logs[v].first
       /\ prod.pc = "last" => ct'.logs[prod.cur].last = prod.cmd.id

\* once a SET is logged and no Log call is running, first is the index of the first SET;
\* on a CircBuffHT, as long as no reduce has emptied the buffer
FirstIsFirstSet ==
  /\ variant \in {"ListHT", "ArrayHT", "AVLTreeHT"} /\ FirstSet(hist).op = "SET"
       => st.ld.first = FirstSet(hist).id
  /\ variant = "CircBuffHT" /\ FirstSet(hist).op = "SET" /\ gh.issued = 0
       => st.ld.first = FirstSet(hist).id
  /\ variant = "ConcTable" /\ FirstSet(hist).op = "SET" /\ prod.pc = "idle"
       => ct.logs[ct.current].first = FirstSet(hist).id

\* C26: under the default configuration, in all five variants, a Log of a GET leaves
\* Len() and first unchanged and sets last to the index of the command, and first is
\* the index of the first logged SET
C26_GetKeepsLenAndFirst ==
  /\ [](IsDefault => FirstIsFirstSet)
  /\ [][IsDefault => GetOnStruct /\ GetOnTable]_vars

\* ------------------------------------------------------------ the codec, byte by byte
\* the files above keep what MarshalLogIntoWriter is given; here are the bytes it
\* writes and what UnmarshalLogFromReader makes of bytes, a byte being 0..255

\* fmt's %d of an unsigned integer, in ASCII
Digits(n) == [i \in 1..Len(FormatUint(n)) |-> 48 + FormatUint(n)[i]]

\* fmt.Fprintf(logWr, "%d\n%d\n%d\n", p, n, count); count is an int
Header(p, n, count) ==
  Digits(p) \o <<10>> \o Digits(n) \o <<10>>
    \o (IF count < 0 THEN <<45>> \o Digits(0 - count) ELSE Digits(count)) \o <<10>>

\* a little-endian size
littleEndian32(k) ==
  <<k % 256, (k \div 256) % 256, (k \div 65536) % 256, (k \div 16777216) % 256>>

\* binary.Write(logWr, binary.BigEndian, int32(k))
BigEndian32(k) ==
  <<(k \div 16777216) % 256, (k \div 65536) % 256, (k \div 256) % 256, k % 256>>

\* base-128 varint of the wire form
RECURSIVE Varint(_)
Varint(n) == IF n < 128 THEN <<n>> ELSE <<128 + (n % 128)>> \o Varint(n \div 128)

\* the wire form of the parts of a command: the number of an op, the bytes of a key
\* and of a value (the string a value stands for is its decimal form, 0 the empty one)
OpCode(op) == CASE op = "SET" -> 1 [] op = "GET" -> 2 [] OTHER -> 0
KeyBytes(k) == CASE k = "a" -> <<97>> [] k = "b" -> <<98>> [] OTHER -> <<>>
ValueBytes(v) == IF v = 0 THEN <<>> ELSE Digits(v)

\* proto.Marshal(&c): fields id, op, key, value, numbered 1 to 4, a field left out
\* when it has its zero value
protoMarshal(c) ==
  (IF c.id = 0 THEN <<>> ELSE <<8>> \o Varint(c.id))
    \o (IF OpCode(c.op) = 0 THEN <<>> ELSE <<16>> \o Varint(OpCode(c.op)))
    \o (IF KeyBytes(c.key) = <<>> THEN <<>>
        ELSE <<26>> \o Varint(Len(KeyBytes(c.key))) \o KeyBytes(c.key))
    \o (IF ValueBytes(c.value) = <<>> THEN <<>>
        ELSE <<34>> \o Varint(Len(ValueBytes(c.value))) \o ValueBytes(c.value))

\* the loop of MarshalLogIntoWriter: the size of each command, then the command
RECURSIVE Frames(_)
Frames(log) ==
  IF log = <<>> THEN <<>>
  ELSE BigEndian32(Len(protoMarshal(Head(log)))) \o protoMarshal(Head(log)) \o Frames(Tail(log))

\* fmt.Fprintln(logWr, "\nEOL")
EOLMark == <<10, 69, 79, 76, 10>>

\* the bytes MarshalLogIntoWriter(logWr, log, p, n) writes
MarshalBytes(log, p, n) == Header(p, n, Len(log)) \o Frames(log) \o EOLMark

\* fmt's scanning of blanks that are not newlines
RECURSIVE skipSpaces(_, _)
skipSpaces(b, i) == IF i <= Len(b) /\ b[i] \in {9, 32} THEN skipSpaces(b, i + 1) ELSE i

RECURSIVE scanDigits(_, _, _)
scanDigits(b, i, acc) ==
  IF i <= Len(b) /\ b[i] \in 48..57 THEN scanDigits(b, i + 1, 10 * acc + (b[i] - 48))
  ELSE [val |-> acc, pos |-> i]

\* fmt's %d: blanks, a sign for an int, one digit or more; [ok, val, pos]
scanNumber(b, i, signed) ==
  LET j   == skipSpaces(b, i)
      neg == j <= Len(b) /\ signed /\ b[j] = 45
      k   == IF j <= Len(b) /\ signed /\ b[j] \in {43, 45} THEN j + 1 ELSE j
      d   == scanDigits(b, k, 0)
  IN  IF d.pos = k THEN [ok |-> FALSE, val |-> 0, pos |-> k]
      ELSE [ok |-> TRUE, val |-> IF neg THEN 0 - d.val ELSE d.val, pos |-> d.pos]

\* a newline of the format: blanks, then a newline or the end of the input; [ok, pos]
matchNewline(b, i) ==
  LET j == skipSpaces(b, i)
  IN  IF j > Len(b) THEN [ok |-> TRUE, pos |-> j]
      ELSE IF b[j] = 10 THEN [ok |-> TRUE, pos |-> j + 1]
      ELSE [ok |-> FALSE, pos |-> j]

\* fmt.Fscanf(logRd, "%d\n%d\n%d\n", &f, &l, &ln); [ok, ln, pos]
scanHeader(b) ==
  LET f  == scanNumber(b, 1, FALSE)
      n1 == matchNewline(b, f.pos)
      l  == scanNumber(b, n1.pos, FALSE)
      n2 == matchNewline(b, l.pos)
      ln == scanNumber(b, n2.pos, TRUE)
      n3 == matchNewline(b, ln.pos)
  IN  IF f.ok /\ n1.ok /\ l.ok /\ n2.ok /\ ln.ok /\ n3.ok
      THEN [ok |-> TRUE, ln |-> ln.val, pos |-> n3.pos]
      ELSE [ok |-> FALSE, ln |-> 0, pos |-> 1]

\* the word %s reads: up to a blank, a newline or the end of the input
RECURSIVE scanWord(_, _)
scanWord(b, i) ==
  IF i <= Len(b) /\ b[i] \notin {9, 10, 32} THEN <<b[i]>> \o scanWord(b, i + 1) ELSE <<>>

\* a reader that asks for no trailer
skipEOL(b, i) == ""

\* fmt.Fscanf(rd, "\n%s\n", &eol) and the test of eol: the error, "" if none
readEOL(b, i) ==
  LET n1 == matchNewline(b, i)
      j  == skipSpaces(b, n1.pos)
      w  == scanWord(b, j)
      n2 == matchNewline(b, j + Len(w))
  IN  IF ~n1.ok THEN "newline in format does not match input"
      ELSE IF j > Len(b) THEN "unexpected EOF"
      ELSE IF b[j] = 10 THEN "unexpected newline"
      ELSE IF ~n2.ok THEN "newline in format does not match input"
      ELSE IF w # <<69, 79, 76>> THEN "expected EOL flag"
      ELSE ""

\* raw := make([]byte, cmdLen) after rd.Read(raw) got the bytes got: zeroes follow them
rawAt(got, i) == IF i <= Len(got) THEN got[i] ELSE 0

\* a varint of raw from position i; [ok, val, pos]
RECURSIVE readVarint(_, _, _)
readVarint(got, cmdLen, i) ==
  IF i > cmdLen THEN [ok |-> FALSE, val |-> 0, pos |-> i]
  ELSE IF rawAt(got, i) < 128 THEN [ok |-> TRUE, val |-> rawAt(got, i), pos |-> i + 1]
  ELSE LET rest == readVarint(got, cmdLen, i + 1)
       IN  [ok |-> rest.ok, val |-> (rawAt(got, i) - 128) + 128 * rest.val, pos |-> rest.pos]

\* the op, key and value that wire forms stand for; one that no command of the model
\* has stands for "?" or -1
OpOf(code) == CASE code = 0 -> "NONE" [] code = 1 -> "SET" [] code = 2 -> "GET" [] OTHER -> "?"
KeyOf(bs) == CASE bs = <<>> -> "" [] bs = <<97>> -> "a" [] bs = <<98>> -> "b" [] OTHER -> "?"
ValueOf(bs) ==
  IF bs = <<>> THEN 0
  ELSE IF bs[1] \in 49..57 /\ scanDigits(bs, 1, 0).pos = Len(bs) + 1 THEN scanDigits(bs, 1, 0).val
  ELSE 0 - 1

\* the fields of raw from position i on, set on cmd; a field of another number or of
\* another wire type is skipped; [cmd, err]
RECURSIVE protoFields(_, _, _, _)
protoFields(got, cmdLen, i, cmd) ==
  IF i > cmdLen THEN [cmd |-> cmd, err |-> ""]
  ELSE LET tag   == readVarint(got, cmdLen, i)
           field == tag.val \div 8
           wire  == tag.val % 8
           v     == readVarint(got, cmdLen, tag.pos)
           bs    == [k \in 1..v.val |-> rawAt(got, v.pos + k - 1)]
       IN  IF ~tag.ok THEN [cmd |-> cmd, err |-> "unexpected EOF"]
           ELSE IF field = 0 THEN [cmd |-> cmd, err |-> "illegal tag 0"]
           ELSE IF wire = 0
           THEN IF ~v.ok THEN [cmd |-> cmd, err |-> "unexpected EOF"]
                ELSE protoFields(got, cmdLen, v.pos,
                                 IF field = 1 THEN [cmd EXCEPT !.id = v.val]
                                 ELSE IF field = 2 THEN [cmd EXCEPT !.op = OpOf(v.val)]
                                 ELSE cmd)
           ELSE IF wire = 2
           THEN IF ~v.ok \/ v.pos + v.val - 1 > cmdLen
                THEN [cmd |-> cmd, err |-> "unexpected EOF"]
                ELSE protoFields(got, cmdLen, v.pos + v.val,
                                 IF field = 3 THEN [cmd EXCEPT !.key = KeyOf(bs)]
                                 ELSE IF field = 4 THEN [cmd EXCEPT !.value = ValueOf(bs)]
                                 ELSE cmd)
           ELSE IF wire \in {1, 5}
           THEN IF tag.pos + (IF wire = 1 THEN 8 ELSE 4) - 1 > cmdLen
                THEN [cmd |-> cmd, err |-> "unexpected EOF"]
                ELSE protoFields(got, cmdLen, tag.pos + (IF wire = 1 THEN 8 ELSE 4), cmd)
           ELSE [cmd |-> cmd, err |-> "illegal wire type"]

\* proto.Unmarshal(raw, c) on c := &pb.Command{}
protoUnmarshal(got, cmdLen) == protoFields(got, cmdLen, 1, ZeroCmd)

\* the int32 binary.Read reads at position i
readInt32(b, i) == b[i] * 16777216 + b[i + 1] * 65536 + b[i + 2] * 256 + b[i + 3]

\* the bytes one rd.Read(raw) gets at position i: cmdLen of them, or those that are left
readRaw(b, i, cmdLen) ==
  SubSeq(b, i, IF i + cmdLen - 1 <= Len(b) THEN i + cmdLen - 1 ELSE Len(b))

\* the loop of unmarshalBeelog from position i with j commands read; [cmds, err, pos]
RECURSIVE beelogLoop(_, _, _, _, _)
beelogLoop(b, i, j, ln, cmds) ==
  IF ~(j < ln) \/ i > Len(b) THEN [cmds |-> cmds, err |-> "", pos |-> i]
  ELSE IF i + 3 > Len(b) THEN [cmds |-> <<>>, err |-> "unexpected EOF", pos |-> i]
  ELSE LET cmdLen == readInt32(b, i)
           got    == readRaw(b, i + 4, cmdLen)
           c      == protoUnmarshal(got, cmdLen)
       IN  IF cmdLen > 0 /\ got = <<>> THEN [cmds |-> cmds, err |-> "", pos |-> i + 4]
           ELSE IF c.err # "" THEN [cmds |-> <<>>, err |-> c.err, pos |-> i]
           ELSE beelogLoop(b, i + 4 + Len(got), j + 1, ln, Append(cmds, c.cmd))

\* unmarshalBeelog(rd, ln) on the bytes from position i
unmarshalBeelogBytes(b, i, ln) ==
  LET read(r) ==
        IF r.err # "" THEN [cmds |-> <<>>, err |-> r.err]
        ELSE IF readEOL(b, r.pos) # "" THEN [cmds |-> <<>>, err |-> readEOL(b, r.pos)]
        ELSE [cmds |-> r.cmds, err |-> ""]
  IN  read(beelogLoop(b, i, 0, ln, <<>>))

\* unmarshalTradLog(rd) on the bytes from position i: until the end of the input
RECURSIVE unmarshalTradLogBytes(_, _, _)
unmarshalTradLogBytes(b, i, cmds) ==
  IF i + 3 > Len(b) THEN [cmds |-> cmds, err |-> ""]
  ELSE LET cmdLen == readInt32(b, i)
           got    == readRaw(b, i + 4, cmdLen)
           c      == protoUnmarshal(got, cmdLen)
       IN  IF cmdLen > 0 /\ got = <<>> THEN [cmds |-> cmds, err |-> ""]
           ELSE IF c.err # "" THEN [cmds |-> <<>>, err |-> c.err]
           ELSE unmarshalTradLogBytes(b, i + 4 + Len(got), Append(cmds, c.cmd))

\* UnmarshalLogFromReader(logRd) on the bytes b; [cmds, err]
UnmarshalBytes(b) ==
  LET h == scanHeader(b)
  IN  IF ~h.ok THEN [cmds |-> <<>>, err |-> "unexpected EOF"]
      ELSE IF h.ln >= 0 THEN unmarshalBeelogBytes(b, h.pos, h.ln)
      ELSE unmarshalTradLogBytes(b, h.pos, <<>>)

\* ------------------------------------------------------------ codec runs
\* commands of a log given to the codec
CodecLen == 2

\* the zero command, SETs whose index takes one and two bytes, a GET
CodecCmds == {ZeroCmd, SetCmd(1, "a"), SetCmd(10, "b"), SetCmd(300, "a"), GetCmd(2)}

CodecLogs == UNION {[1..k -> CodecCmds] : k \in 0..CodecLen}

\* the p and n given to MarshalLogIntoWriter
CodecIdx == {0, 12}

\* buf: the bytes of the file; count, eol: the count its header has and whether the
\* EOL mark ends it; by: who wrote it
NoFile == [buf |-> <<>>, count |-> 0, eol |-> FALSE, by |-> "none"]

InitCodec ==
  /\ variant = "Codec"
  /\ cfg = LogConfig(TRUE, FALSE, "IterConcTable", Delayed, 0, FALSE)
  /\ hist \in CodecLogs
  /\ st = NoFile
  /\ out = NoOut
  /\ disk = EmptyMap
  /\ ct = NewConcTable(1)
  /\ prod = IdleProd
  /\ pst = <<>>
  /\ rd = <<>>
  /\ gh = NoGh(1)

\* MarshalLogIntoWriter(logWr, &hist, p, n)
CodecMarshal ==
  /\ variant = "Codec"
  /\ st.by = "none"
  /\ \E p \in CodecIdx, n \in CodecIdx :
       /\ st' = [buf |-> MarshalBytes(hist, p, n), count |-> Len(hist), eol |-> TRUE,
                 by |-> "marshal"]
       /\ out' = [NoOut EXCEPT !.kind = "marshal", !.p = p, !.n = n]
  /\ UNCHANGED <<variant, cfg, hist, disk, ctVars>>

\* a file as another writer leaves it: a header with whatever count (-1 for the
\* traditional format), the commands, the EOL mark or none
CodecWrite ==
  /\ variant = "Codec"
  /\ st.by = "none"
  /\ \E p \in CodecIdx, n \in CodecIdx, count \in -1..CodecLen, eol \in BOOLEAN :
       /\ st' = [buf |-> Header(p, n, count) \o Frames(hist)
                           \o (IF eol THEN EOLMark ELSE <<>>),
                 count |-> count, eol |-> eol, by |-> "writer"]
       /\ out' = [NoOut EXCEPT !.kind = "write", !.p = p, !.n = n]
  /\ UNCHANGED <<variant, cfg, hist, disk, ctVars>>

\* UnmarshalLogFromReader(logRd) on the file
CodecUnmarshal ==
  /\ variant = "Codec"
  /\ st.by # "none"
  /\ out.kind # "unmarshal"
  /\ \E r \in {UnmarshalBytes(st.buf)} :
       out' = [NoOut EXCEPT !.kind = "unmarshal", !.p = out.p, !.n = out.n,
                            !.log = r.cmds, !.err = r.err]
  /\ UNCHANGED <<variant, cfg, hist, st, disk, ctVars>>

NextCodec ==
  \/ CodecMarshal
  \/ CodecWrite
  \/ CodecUnmarshal

SpecCodec == InitCodec /\ [][NextCodec]_vars

\* UnmarshalLogFromReader has returned from reading the file
Unmarshalled == variant = "Codec" /\ out.kind = "unmarshal"

\* C27: for every command sequence, the empty one included, and every p and n,
\* UnmarshalLogFromReader of the bytes MarshalLogIntoWriter wrote returns the same
\* commands in the same order and no error; the files kept as what was marshalled
\* return the same
C27_CodecRoundTrip ==
  Unmarshalled /\ st.by = "marshal"
    => /\ out.err = ""
       /\ out.log = hist
       /\ UnmarshalLogFromReader(MarshalLogIntoWriter(hist, out.p, out.n))
            = [cmds |-> out.log, err |-> out.err]

C27_Witness ==
  /\ Unmarshalled
  /\ st.by = "marshal"
  /\ hist = <<SetCmd(300, "a"), ZeroCmd>>
  /\ out.p > out.n
  /\ out.log = hist

\* a file whose header counts its commands, or a traditional one, which has no EOL mark
WellFramed == st.count \in {-1, Len(hist)} /\ (st.count = -1 => ~st.eol)

\* C28 as stated: UnmarshalLogFromReader returns an error if and only if the count
\* of the header is above zero and the EOL mark is missing
C28_ErrorIffCountedAndNoEOL ==
  Unmarshalled /\ WellFramed => (out.err # "" <=> st.count > 0 /\ ~st.eol)

\* C28: UnmarshalLogFromReader returns an error if and only if the header has a
\* count, zero included, and the EOL mark is missing; a traditional file is accepted
C28_ErrorIffCompactedAndNoEOL ==
  Unmarshalled /\ WellFramed
    => /\ out.err # "" <=> st.count >= 0 /\ ~st.eol
       /\ out.err = "" => out.log = hist

C28_Witness ==
  /\ Unmarshalled
  /\ st.by = "writer"
  /\ st.count = 0
  /\ hist = <<>>
  /\ ~st.eol
  /\ out.err = "unexpected EOF"

\* ------------------------------------------------------------ the cursor
\* concurrency levels on which advanceCurrentView is computed alone
CursorLevels == 4

\* a step that calls advanceCurrentView: a Log call whose command ends a period, or a
\* Recov call that reads the cursor
Advances ==
  \/ /\ prod.pc = "idle"
     /\ prod'.pc = "lock"
     /\ willRequireReduceOnView(cfg, ct, prod'.cmd.op = "SET", ct.current).advance
  \/ \E r \in DOMAIN rd : rd[r].pc = "idle" /\ rd'[r].pc = "decide"

\* advanceCurrentView on every view of a table of each level
AdvanceIsCyclic ==
  \A lvl \in 1..CursorLevels : \A c \in 0..(lvl - 1) :
    advanceCurrentView([current |-> c, concLevel |-> lvl]) = (c + 1) % lvl

\* C29: on a ConcTable of any concLevel >= 1, current is always one of the views
\* 0..concLevel-1, and each advance, by a Log at the end of a period or by a Recov
\* call, moves it to (current + 1) mod concLevel; no other step moves it
C29_CursorIsCyclic ==
  /\ [](variant = "ConcTable" => ct.current \in 0..(ct.concLevel - 1))
  /\ []AdvanceIsCyclic
  /\ [][variant = "ConcTable"
          => ct'.current = IF Advances THEN (ct.current + 1) % ct.concLevel
                           ELSE ct.current]_vars

\* a Log call advanced the cursor from view 0 and a Recov call took it back there
C29_Witness ==
  /\ variant = "ConcTable"
  /\ ct.concLevel = 2
  /\ ct.current = 0
  /\ gh.handed = 0
  /\ gh.moved
  /\ prod.pc = "idle"

\* ------------------------------------------------------------ the catalog in order
\* last indexes whose file names are compared: names of one, two and three digits
NameIdx == 120

\* the order of byLenAlpha on two names is the order of the indexes in them
NamesOrderAsIndexes ==
  \A a \in 0..NameIdx : \A b \in 0..NameIdx :
    byLenAlphaLess(FormatUint(a), FormatUint(b)) <=> a < b

\* the contents of the files fs one after the other, by ascending last index
RECURSIVE Ascending(_, _)
Ascending(dsk, fs) ==
  IF fs = {} THEN <<>>
  ELSE LET m == CHOOSE f \in fs : \A g \in fs : f.idx <= g.idx
       IN  dsk[m].frames \o Ascending(dsk, fs \ {m})

\* a step in which RecovEntireLog returns
EntireLogReturns == out'.kind = "entire" /\ out' # out

\* C30: the order of byLenAlpha on the names written under KeepAll from one Fname is
\* the ascending order of their last indexes, and RecovEntireLog returns the contents
\* of the files in that order and the number of files
C30_EntireLogInIndexOrder ==
  /\ []NamesOrderAsIndexes
  /\ [][EntireLogReturns /\ cfg.KeepAll
          => /\ out'.n = Cardinality(Files("primary"))
             /\ out'.log = Ascending(disk, Files("primary"))]_vars

\* RecovEntireLog returned the files 9 and 10, whose names differ in length
C30_Witness ==
  /\ cfg.KeepAll
  /\ out.kind = "entire"
  /\ out.n = 2
  /\ {f.idx : f \in Files("primary")} = {9, 10}
  /\ Len(out.log) = 2
  /\ out.log[1].id = 9
  /\ out.log[2].id = 10

\* ------------------------------------------------------------ snapshots of the ring
\* the entries at the last len positions of the ring of a snapshot
Window(cp) == {cp.buf[modInt(cp.cur - 1 - i, cp.cap)] : i \in 0..(cp.len - 1)}

\* the logged SET with the greatest index among the entries of the snapshot with key k
NewestSet(cp, k) ==
  LET e == CHOOSE x \in Window(cp) : x.key = k /\ \A y \in Window(cp) : y.key = k => y.ind <= x.ind
  IN  hist[CHOOSE i \in DOMAIN hist : hist[i].id = e.ind]

\* IterCircBuffHT on a snapshot: one command for each key of the window, the most
\* recent SET of the key, and their execution is that of the SETs of [first, last]
SnapshotReduced(cp) ==
  LET log == IterCircBuffHT(cp)
      keys == {e.key : e \in Window(cp)}
  IN  /\ Len(log) = Cardinality(keys)
      /\ \A k \in keys : \E i \in DOMAIN log : log[i] = NewestSet(cp, k)
      /\ cp.len >= 1 => Exec(log) = NetEffect(cp.first, cp.last)

LiveConfigs ==
  {LogConfig(TRUE, FALSE, "IterConcTable", tick, 1, FALSE) : tick \in Ticks}

InitLive == InitTable(LiveConfigs, MaxRecov)

NextLive ==
  \/ LogEnter
  \/ LogLockView
  \/ LogWriteView
  \/ LogFinish
  \/ \E h \in DOMAIN pst : PersistReceive(h)
  \/ \E h \in DOMAIN pst : PersistTable(h)
  \/ \E h \in DOMAIN pst : PersistRelease(h)
  \/ \E r \in DOMAIN rd : RecovInvalid(r)
  \/ \E r \in DOMAIN rd : RecovAdvance(r)
  \/ \E r \in DOMAIN rd : RecovDecide(r)
  \/ \E r \in DOMAIN rd : RecovLockView(r)
  \/ \E r \in DOMAIN rd : RecovPersist(r)
  \/ \E r \in DOMAIN rd : RecovRead(r)

\* a goroutine that can take a step takes one: the steps inside a Log call, those of
\* the handleReduce goroutines and those inside a Recov call; no call has to be made
FairSteps ==
  /\ WF_vars(LogLockView)
  /\ WF_vars(LogWriteView)
  /\ WF_vars(LogFinish)
  /\ \A h \in 1..2 : WF_vars(h \in DOMAIN pst /\ PersistReceive(h))
  /\ \A h \in 1..2 : WF_vars(h \in DOMAIN pst /\ PersistTable(h))
  /\ \A h \in 1..2 : WF_vars(h \in DOMAIN pst /\ PersistRelease(h))
  /\ \A r \in 1..NumReaders : WF_vars(RecovDecide(r))
  /\ \A r \in 1..NumReaders : WF_vars(RecovLockView(r))
  /\ \A r \in 1..NumReaders : WF_vars(RecovPersist(r))
  /\ \A r \in 1..NumReaders : WF_vars(RecovRead(r))

SpecLive == InitLive /\ [][NextLive]_vars /\ FairSteps

\* view v was handed to a persister that has not released it yet
Outstanding(v) ==
  /\ v \in DOMAIN ct.mu
  /\ \/ \E q \in DOMAIN ct.loggerReq : ct.loggerReq[q].table = v
     \/ \E h \in DOMAIN pst : pst[h].pc \in {"persist", "release"} /\ pst[h].event.table = v

\* view v is with no persister and its mutex is free
Released(v) == ~Outstanding(v) /\ v \in DOMAIN ct.mu /\ ~ct.mu[v]

EventsOn(v) ==
  Cardinality({q \in DOMAIN ct.loggerReq : ct.loggerReq[q].table = v})
    + Cardinality({h \in DOMAIN pst : /\ pst[h].pc \in {"persist", "release", "fatal"}
                                      /\ pst[h].event.table = v})

\* the mutex of view v is held by the running Log call, by a running Recov call
HeldByLog(v) == prod.pc \in {"first", "last"} /\ prod.cur = v
HeldByRecov(v) ==
  \E r \in DOMAIN rd :
    rd[r].cur = v /\ (rd[r].pc = "persist" \/ (rd[r].pc = "read" /\ rd[r].exec))

\* C33: each view has at most one reduce event outstanding, so no more than concLevel
\* in all, and while it has one its mutex is locked, by the Log call that enqueued
\* the event and by no running call: that is the lock the persister releases
C33_OneEventPerLockedView ==
  variant = "ConcTable" =>
    /\ \A v \in DOMAIN ct.mu :
         /\ EventsOn(v) <= 1
         /\ EventsOn(v) = 1 => ct.mu[v] /\ ~HeldByLog(v) /\ ~HeldByRecov(v)
    /\ Len(ct.loggerReq)
         + Cardinality({h \in DOMAIN pst : pst[h].pc \in {"persist", "release", "fatal"}})
         <= ct.concLevel

\* both views of a table are handed off: one event buffered, one with a persister
C33_Witness ==
  /\ variant = "ConcTable"
  /\ ct.concLevel = 2
  /\ Len(ct.loggerReq) = 1
  /\ EventsOn(0) = 1
  /\ EventsOn(1) = 1
  /\ ct.mu[0]
  /\ ct.mu[1]

\* ------------------------------------------------------------ a reducer of another structure
\* a ConcTable configured with a reducer it does not support: ValidateConfig accepts it
BadConfigs ==
  {LogConfig(TRUE, FALSE, "GreedyAvl", tick, 1, FALSE) : tick \in {Delayed, Interval}}

InitBad == InitTable(BadConfigs, MaxRecov)

\* Log calls that hand no view off, and Recov calls
NextBad ==
  \/ LogEnter
  \/ LogLockView
  \/ LogWriteView
  \/ LogFinish
  \/ \E r \in DOMAIN rd : RecovInvalid(r)
  \/ \E r \in DOMAIN rd : RecovAdvance(r)
  \/ \E r \in DOMAIN rd : RecovDecide(r)
  \/ \E r \in DOMAIN rd : RecovLockView(r)
  \/ \E r \in DOMAIN rd : RecovPersist(r)

SpecBad == InitBad /\ [][NextBad]_vars

\* C34: when the persist of a lazy reduce fails, Recov returns that error and the
\* mutex of the view it had locked is released
C34_FailedLazyReduceUnlocks ==
  [][\A r \in DOMAIN rd :
       rd[r].pc = "persist" /\ rd'[r].pc = "idle"
         => /\ out'.err = "unsupported reduce algorithm"
            /\ ~ct'.mu[rd[r].cur]]_vars

\* ------------------------------------------------------------ Recov before any reduce
\* no reduce has stored a log in memory yet
NeverReduced ==
  IF variant = "ConcTable"
  THEN \A v \in DOMAIN ct.logs : ~ct.logs[v].recentLog.set
  ELSE ~st.ld.recentLog.set

\* C35: with inmem set, a Recov with p <= n on a structure that has never been
\* reduced returns an empty log or an error, and never reads an unset recentLog
C35_RecovBeforeAnyReduce ==
  (cfg.Inmem /\ out.kind = "recov" /\ out.p <= out.n /\ NeverReduced)
    => ~out.panic /\ (out.log = <<>> \/ out.err # "")

\* ------------------------------------------------------------ the default constructors
\* the zero value of Reducer
ZeroReducer == "GreedyLt"

\* DefaultLogConfig(): Inmem and Tick are set, every other field has its zero value
DefaultLogConfig == LogConfig(TRUE, FALSE, ZeroReducer, Delayed, 0, FALSE)

defaultCap == 4000
defaultConcLvl == 2

\* NewListHT(), NewArrayHT(), NewAVLTreeHT(), NewCircBuffHT(ctx) and NewConcTable(ctx)
InitDef ==
  \/ /\ variant \in {"ListHT", "ArrayHT", "AVLTreeHT", "CircBuffHT"}
     /\ cfg = DefaultLogConfig
     /\ st = NewStructure(variant, defaultCap)
     /\ hist = <<>>
     /\ out = NoOut
     /\ disk = EmptyMap
     /\ ct = NewConcTable(1)
     /\ prod = IdleProd
     /\ pst = <<>>
     /\ rd = <<>>
     /\ gh = [NoGh(1) EXCEPT !.budget = ApiRecov]
  \/ /\ InitTable({[DefaultLogConfig EXCEPT !.Alg = "IterConcTable"]}, ApiRecov)
     /\ ct.concLevel = defaultConcLvl

NextDef ==
  \/ LogList
  \/ LogArray
  \/ LogAVL
  \/ LogCirc
  \/ RecovSeq
  \/ RecovCirc
  \/ LogEnter
  \/ LogLockView
  \/ LogWriteView
  \/ LogFinish
  \/ \E r \in DOMAIN rd : RecovInvalid(r)
  \/ \E r \in DOMAIN rd : RecovAdvance(r)
  \/ \E r \in DOMAIN rd : RecovDecide(r)
  \/ \E r \in DOMAIN rd : RecovLockView(r)
  \/ \E r \in DOMAIN rd : RecovPersist(r)
  \/ \E r \in DOMAIN rd : RecovRead(r)

SpecDef == InitDef /\ [][NextDef]_vars

\* a SET has been logged
SomeSet == \E i \in DOMAIN hist : hist[i].op = "SET"

\* C36: on a structure built by a no-argument constructor, once a SET has been
\* logged, a Recov(p, n) with p <= n does not fail with the unsupported-algorithm
\* error
C36_DefaultReducerSupported ==
  (SomeSet /\ out.kind = "recov" /\ out.p <= out.n)
    => out.err # "unsupported reduce algorithm"

\* ------------------------------------------------------------ errors of Log
\* C37: on a ListHT, ArrayHT or AVLTreeHT with an in-memory configuration and a
\* matching reducer, Log returns no error, whatever the mix of GET and SET
\* commands and whatever the schedule
C37_LogNeverFails ==
  (variant \in {"ListHT", "ArrayHT", "AVLTreeHT"} /\ cfg.Inmem
     /\ cfg.Alg \in Supported(variant) /\ out.kind = "log")
    => out.err = ""

\* ------------------------------------------------------------ the length of the buffer
\* C38: on a CircBuffHT of capacity cap >= 1, 0 <= len <= cap holds in every
\* reachable state, under every schedule and any sequence of Log calls
C38_LenWithinCap ==
  variant = "CircBuffHT" => st.cap >= 1 /\ 0 <= st.len /\ st.len <= st.cap

\* ------------------------------------------------------------ replaying the kept files
\* what replaying the files kept on the primary disk applies, by ascending last index
Replayed == Ascending(disk, Files("primary"))

\* no SET of a key comes after a SET of the same key with a greater id
NewerSetsLater(log) ==
  \A i \in DOMAIN log : \A j \in DOMAIN log :
    (i < j /\ log[i].op = "SET" /\ log[j].op = "SET" /\ log[i].key = log[j].key)
      => log[i].id <= log[j].id

\* every key ends with the value of its SET of greatest id
HighestSetWins(log) ==
  \A i \in DOMAIN log :
    log[i].op = "SET" =>
      \E j \in DOMAIN log :
        /\ log[j].op = "SET"
        /\ log[j].key = log[i].key
        /\ log[j].id >= log[i].id
        /\ Exec(log)[log[i].key] = log[j].value
        /\ \A m \in DOMAIN log :
             (log[m].op = "SET" /\ log[m].key = log[i].key) => log[m].id <= log[j].id

\* C39: on a ConcTable with tick=Interval, inmem=false and keepAll=true, with Recov
\* calls interleaved with the Log calls, replaying the persisted files by ascending
\* last index never applies an older SET of a key after a newer one, and every key
\* ends with the value of its SET of greatest id among the persisted commands
C39_ReplayNeverGoesBack ==
  (variant = "ConcTable" /\ cfg.Tick = Interval /\ ~cfg.Inmem /\ cfg.KeepAll)
    => NewerSetsLater(Replayed) /\ HighestSetWins(Replayed)


\* Recov calls made on the ConcTable that keeps every file
KeepRecov == 2

\* a file per reduce, a reduce every second command of a view
KeepConfigs == {LogConfig(FALSE, TRUE, "IterConcTable", Interval, 2, FALSE)}

InitKeep == InitTable(KeepConfigs, KeepRecov)

NextKeep ==
  \/ LogEnter
  \/ LogLockView
  \/ LogWriteView
  \/ LogFinish
  \/ \E h \in DOMAIN pst : PersistReceive(h)
  \/ \E h \in DOMAIN pst : PersistTable(h)
  \/ \E h \in DOMAIN pst : PersistRelease(h)
  \/ \E r \in DOMAIN rd : RecovInvalid(r)
  \/ \E r \in DOMAIN rd : RecovAdvance(r)
  \/ \E r \in DOMAIN rd : RecovDecide(r)
  \/ \E r \in DOMAIN rd : RecovLockView(r)
  \/ \E r \in DOMAIN rd : RecovPersist(r)
  \/ \E r \in DOMAIN rd : RecovRead(r)

SpecKeep == InitKeep /\ [][NextKeep]_vars

\* ------------------------------------------------------------ one thread, Delayed
\* Recov calls made by the thread that also calls Log
OneRecov == 2

OneConfigs == {LogConfig(TRUE, FALSE, "IterConcTable", Delayed, 1, FALSE)}

InitOne == InitTable(OneConfigs, OneRecov)

\* the calls of one thread: a call starts once the call before it has returned
NextOne ==
  \/ NoReader /\ LogEnter
  \/ LogLockView
  \/ LogWriteView
  \/ LogFinish
  \/ \E r \in DOMAIN rd : prod.pc = "idle" /\ RecovInvalid(r)
  \/ \E r \in DOMAIN rd : prod.pc = "idle" /\ RecovAdvance(r)
  \/ \E r \in DOMAIN rd : RecovDecide(r)
  \/ \E r \in DOMAIN rd : RecovLockView(r)
  \/ \E r \in DOMAIN rd : RecovPersist(r)
  \/ \E r \in DOMAIN rd : RecovRead(r)

SpecOne == InitOne /\ [][NextOne]_vars

\* the last call of the thread was a Recov(p, n) with p <= n, and it has returned
RecovWasLast ==
  /\ out.kind = "recov"
  /\ out.p <= out.n
  /\ prod.pc = "idle"
  /\ NoReader

\* C40: on a ConcTable with tick=Delayed and inmem=true, after any sequence of Log
\* and Recov calls of one thread, a Recov call returns exactly one command for every
\* key that was ever SET, carrying the value of the latest SET of that key
C40_RecovReducesAllLogged ==
  (cfg.Tick = Delayed /\ cfg.Inmem /\ SomeSet /\ RecovWasLast)
    => /\ out.err = ""
       /\ ~out.panic
       /\ Len(out.log) = Cardinality(DOMAIN Exec(hist))
       /\ Exec(out.log) = Exec(hist)
=============================================================================
